---- MODULE Spec2Model ----
(***************************************************************************)
(* NYC taxi-trip audit: schema normalisation, ghost-trip classification,   *)
(* the per-file partition writer (src/src/processing.py), the zone         *)
(* classifier (src/src/geospatial.py) and the sequence of aggregation      *)
(* analyses (src/src/analytics.py, src/pipeline.py).                       *)
(*                                                                         *)
(* Numbers.  Distances are integers in tenths of a mile, fares in dollars, *)
(* times in seconds, latitudes in thousandths of a degree.  A Float64      *)
(* quotient is kept as an exact fraction [n, d] and compared by cross      *)
(* multiplication, so no comparison of the source is rounded away.         *)
(***************************************************************************)
EXTENDS Integers, Sequences, FiniteSets, TLC

VARIABLES
    \* ---- one batch through standardize_schema / apply_ghost_logic / split
    b_type,      \* taxi_type handed to standardize_schema
    b_raw,       \* the raw frame (columns, rows)
    b_stage,     \* "raw" | "normalized" | "tagged" | "split" | "..._failed"
    b_df,        \* the frame at the current stage
    b_clean,     \* df_clean of the split
    b_ghosts,    \* df_ghosts of the split
    \* ---- process_data over the raw directory
    raw,         \* data/raw: file name -> [readable, frame]
    cleanStore,  \* data/processed: path -> frame written by write_parquet
    auditStore,  \* data/audit: path -> frame written by write_csv
    pc,          \* "idle" | "loop" | "done"
    idx,         \* position of the for loop in the sorted file list
    log,         \* what the current run printed, one record per file
    locals,      \* df_tagged, df_ghosts, df_clean as last assigned in the loop
    cleanFrom,   \* history: the raw entry each clean file was last written from
    runs,        \* runs started
    edits,       \* raw files replaced between runs
    \* ---- the zone classifier
    gdf,         \* the rows of taxi_zones.shp: LocationID, borough, latitude
    zone_ids,    \* the list get_congestion_zone_ids returned, or NotComputed
    border_ids,  \* the list get_border_zone_ids returned, or NotComputed
    \* ---- the analyses of run_pipeline
    store,       \* the files under data/processed and data/raw
    shapefile,   \* TRUE when taxi_zones.shp can be read
    eagerScan,   \* TRUE when scan_parquet resolves its glob when called
    step,        \* the analysis run_pipeline is about to call
    outcome,     \* analysis -> what its call did
    \* ---- one analysis applied to one set of inputs
    job,         \* the analysis: "border" | "leakage" | "velocity" | ...
    args,        \* the tables and files the analysis reads
    ret,         \* the table it writes, or NotRet
    \* ---- the analyses run side by side
    apc,         \* analysis -> where its call stands
    zipFile,     \* data/shapefiles/taxi_zones.zip: absent | partial | complete
    shpFile,     \* data/shapefiles/taxi_zones.shp: absent | partial | complete
    writers,     \* file -> the analyses that have written to it
    readyAtStart \* history: archive and shapefile were there before the first call

batchVars == <<b_type, b_raw, b_stage, b_df, b_clean, b_ghosts>>

procVars ==
    <<raw, cleanStore, auditStore, pc, idx, log, locals, cleanFrom, runs, edits>>

zoneVars == <<gdf, zone_ids, border_ids>>

pipeVars == <<store, shapefile, eagerScan, step, outcome>>

calcVars == <<job, args, ret>>

raceVars == <<apc, zipFile, shpFile, writers, readyAtStart>>

vars == <<batchVars, procVars, zoneVars, pipeVars, calcVars, raceVars>>

-----------------------------------------------------------------------------
(* Cell values of a polars frame.                                          *)

Null == [t |-> "null"]
Num(n) == [t |-> "num", v |-> n]
Text(s) == [t |-> "str", s |-> s]
Frac(n, d) == [t |-> "frac", n |-> n, d |-> d]

IsNull(x) == x.t = "null"

\* Three-valued booleans of polars expressions: "T", "F" or "N" (null).
KAnd(a, b) ==
    IF a = "F" \/ b = "F" THEN "F"
    ELSE IF a = "N" \/ b = "N" THEN "N"
    ELSE "T"

KBool(p) == IF p THEN "T" ELSE "F"

\* x > k for a numeric cell (null in, null out).
GtNum(x, k) == IF IsNull(x) THEN "N" ELSE KBool(x.v > k)

\* x == k for a numeric cell.
EqNum(x, k) == IF IsNull(x) THEN "N" ELSE KBool(x.v = k)

\* q > k and q < k for a fraction cell n/d, d # 0, by the sign of d.
GtFrac(q, k) ==
    IF IsNull(q) THEN "N"
    ELSE IF q.d > 0 THEN KBool(q.n > k * q.d)
    ELSE KBool(q.n < k * q.d)

LtFrac(q, k) ==
    IF IsNull(q) THEN "N"
    ELSE IF q.d > 0 THEN KBool(q.n < k * q.d)
    ELSE KBool(q.n > k * q.d)

-----------------------------------------------------------------------------
(* Frames: a sequence of column names and a sequence of rows, each row a   *)
(* function from the column names to cells.                                *)

Range(s) == {s[i] : i \in 1..Len(s)}

Frame(cols, rows) == [cols |-> cols, rows |-> rows]

HasCol(df, c) == c \in Range(df.cols)

NoDuplicates(s) == \A i, j \in 1..Len(s) : s[i] = s[j] => i = j

\* df.select(names): the named columns, in the order named.
SelectCols(df, names) ==
    Frame(names,
          [i \in 1..Len(df.rows) |-> [c \in Range(names) |-> df.rows[i][c]]])

\* df.drop(names).
DropCols(df, names) ==
    LET keep(c) == c \notin names
        kept == SelectSeq(df.cols, keep)
    IN SelectCols(df, kept)

-----------------------------------------------------------------------------
(* standardize_schema                                                      *)

YellowMap ==
    << <<"tpep_pickup_datetime", "pickup_time">>,
       <<"tpep_dropoff_datetime", "dropoff_time">>,
       <<"PULocationID", "pickup_loc">>,
       <<"DOLocationID", "dropoff_loc">>,
       <<"trip_distance", "trip_distance">>,
       <<"fare_amount", "fare">>,
       <<"total_amount", "total_amount">>,
       <<"tip_amount", "tip_amount">>,
       <<"congestion_surcharge", "congestion_surcharge">> >>

GreenMap ==
    << <<"lpep_pickup_datetime", "pickup_time">>,
       <<"lpep_dropoff_datetime", "dropoff_time">>,
       <<"PULocationID", "pickup_loc">>,
       <<"DOLocationID", "dropoff_loc">>,
       <<"trip_distance", "trip_distance">>,
       <<"fare_amount", "fare">>,
       <<"total_amount", "total_amount">>,
       <<"tip_amount", "tip_amount">>,
       <<"congestion_surcharge", "congestion_surcharge">> >>

rename_map(taxi_type) == IF taxi_type = "yellow" THEN YellowMap ELSE GreenMap

\* The columns the type coercion names: a strict cast, and a cast followed
\* by fill_null(0.0).
StrictCast == {"trip_distance", "fare", "total_amount"}
FilledCast == {"tip_amount", "congestion_surcharge"}

\* Step 2: keep the mapped columns that exist in the frame, renamed.
SelectRename(df, taxi_type) ==
    LET m == rename_map(taxi_type)
        present(p) == HasCol(df, p[1])
        kept == SelectSeq(m, present)
        names == [i \in 1..Len(kept) |-> kept[i][2]]
    IN Frame(names,
             [r \in 1..Len(df.rows) |->
                 [c \in Range(names) |->
                     LET i == CHOOSE k \in 1..Len(kept) : kept[k][2] = c
                     IN df.rows[r][kept[i][1]]]])

\* cast(pl.Float64) of one cell: numbers and nulls pass, text does not parse.
CastFails(x) == x.t = "str"

\* Step 3 raises when a coerced column is absent or a cell does not parse.
CoerceRaises(df) ==
    \/ \E c \in StrictCast \cup FilledCast : ~HasCol(df, c)
    \/ \E r \in 1..Len(df.rows) :
          \E c \in StrictCast \cup FilledCast : CastFails(df.rows[r][c])

Coerce(df) ==
    Frame(df.cols,
          [r \in 1..Len(df.rows) |->
              [c \in Range(df.cols) |->
                  IF c \in FilledCast /\ IsNull(df.rows[r][c])
                  THEN Num(0)
                  ELSE df.rows[r][c]]])

\* The result of standardize_schema followed by collect(): ok is FALSE when
\* the query raises.
standardize_schema(df, taxi_type) ==
    LET sel == SelectRename(df, taxi_type)
    IN IF CoerceRaises(sel)
       THEN [ok |-> FALSE, df |-> sel]
       ELSE [ok |-> TRUE, df |-> Coerce(sel)]

-----------------------------------------------------------------------------
(* apply_ghost_logic                                                       *)

ImpossiblePhysics == "Impossible Physics (>65mph)"
Teleporter == "Teleporter (<1min, >$20)"
StationaryRide == "Stationary Ride (0mi, >$0)"
TimeTravel == "Time Travel (Negative Duration)"

\* (dropoff_time - pickup_time).dt.total_seconds(), null if either is null.
TotalSeconds(row) ==
    IF IsNull(row["dropoff_time"]) \/ IsNull(row["pickup_time"])
    THEN Null
    ELSE Num(row["dropoff_time"].v - row["pickup_time"].v)

\* total_seconds / 60.
DurationMin(row) ==
    LET s == TotalSeconds(row)
    IN IF IsNull(s) THEN Null ELSE Frac(s.v, 60)

\* trip_distance / (total_seconds / 3600 + 0.0001), with the distance d in
\* tenths of a mile: (d/10) / ((25 s + 9) / 90000) = 9000 d / (25 s + 9).
SpeedMph(row) ==
    LET s == TotalSeconds(row)
        d == row["trip_distance"]
    IN IF IsNull(s) \/ IsNull(d) THEN Null
       ELSE Frac(9000 * d.v, 25 * s.v + 9)

Rule1(speed) == GtFrac(speed, 65)
Rule2(dur, fare) == KAnd(LtFrac(dur, 1), GtNum(fare, 20))
Rule3(dist, fare) == KAnd(EqNum(dist, 0), GtNum(fare, 0))
Rule4(dur) == LtFrac(dur, 0)

\* The chain with its last branch left out.
GhostReason_NoTimeTravel(dur, speed, dist, fare) ==
    IF Rule1(speed) = "T" THEN Text(ImpossiblePhysics)
    ELSE IF Rule2(dur, fare) = "T" THEN Text(Teleporter)
    ELSE IF Rule3(dist, fare) = "T" THEN Text(StationaryRide)
    ELSE Null

\* The chain with the negative-duration branch written first.
GhostReason_TimeTravelFirst(dur, speed, dist, fare) ==
    IF Rule4(dur) = "T" THEN Text(TimeTravel)
    ELSE IF Rule1(speed) = "T" THEN Text(ImpossiblePhysics)
    ELSE IF Rule2(dur, fare) = "T" THEN Text(Teleporter)
    ELSE IF Rule3(dist, fare) = "T" THEN Text(StationaryRide)
    ELSE Null

\* The when/then chain: a branch is taken when its condition is true (a
\* null condition is not taken); otherwise(None) leaves null.
GhostReason(dur, speed, dist, fare) ==
    IF Rule1(speed) = "T" THEN Text(ImpossiblePhysics)
    ELSE IF Rule2(dur, fare) = "T" THEN Text(Teleporter)
    ELSE IF Rule3(dist, fare) = "T" THEN Text(StationaryRide)
    ELSE IF Rule4(dur) = "T" THEN Text(TimeTravel)
    ELSE Null

DerivedCols == <<"duration_min", "speed_mph", "ghost_reason">>

\* The columns apply_ghost_logic reads.
GhostInputs == {"dropoff_time", "pickup_time", "trip_distance", "fare"}

GhostLogicRaises(df) == \E c \in GhostInputs : ~HasCol(df, c)

TagRow(row) ==
    LET dur == DurationMin(row)
        speed == SpeedMph(row)
    IN [c \in DOMAIN row \cup Range(DerivedCols) |->
           IF c = "duration_min" THEN dur
           ELSE IF c = "speed_mph" THEN speed
           ELSE IF c = "ghost_reason"
                THEN GhostReason(dur, speed, row["trip_distance"], row["fare"])
           ELSE row[c]]

apply_ghost_logic(df) ==
    Frame(df.cols \o DerivedCols,
          [r \in 1..Len(df.rows) |-> TagRow(df.rows[r])])

-----------------------------------------------------------------------------
(* The split of process_data.                                              *)

IsGhost(row) == ~IsNull(row["ghost_reason"])
IsClean(row) == IsNull(row["ghost_reason"])

\* df.filter(p) keeps the rows for which the predicate is true.
SplitGhosts(df) == Frame(df.cols, SelectSeq(df.rows, IsGhost))

\* The clean filter written on the speed rule: a null comparison drops the row.
SplitClean_DropsNullSpeed(df) ==
    LET slow(row) == IsClean(row) /\ GtFrac(row["speed_mph"], 65) = "F"
    IN Frame(df.cols, SelectSeq(df.rows, slow))

SplitClean(df) == Frame(df.cols, SelectSeq(df.rows, IsClean))

-----------------------------------------------------------------------------
(* One batch, step by step: the inputs of standardize_schema and           *)
(* apply_ghost_logic drawn from bounded sets.                              *)

MaxRows == 1

SourceCols(taxi_type) ==
    [i \in 1..Len(rename_map(taxi_type)) |-> rename_map(taxi_type)[i][1]]

\* A vendor file also carries columns the mapping does not name.
VendorOnly(taxi_type) ==
    IF taxi_type = "yellow" THEN <<"VendorID">> ELSE <<"ehail_fee">>

PickupCol(taxi_type) == SourceCols(taxi_type)[1]
DropoffCol(taxi_type) == SourceCols(taxi_type)[2]

\* Tenths of a mile: null, -10 mi, 0 mi, 1 mi.
DistVals == {Null, Num(0 - 100), Num(0), Num(10)}
\* dropoff - pickup in seconds, or a null dropoff.
PickupAt == 60 * 60
DropoffVals == {Null, Num(PickupAt - 60), Num(PickupAt + 30), Num(PickupAt + 600)}
FareVals == {Null, Num(0), Num(25), Text("abc")}
TipVals == {Null, Num(2)}

RawRow(taxi_type, dist, dropoff, fare, tip) ==
    [c \in Range(SourceCols(taxi_type)) \cup Range(VendorOnly(taxi_type)) |->
        IF c = PickupCol(taxi_type) THEN Num(PickupAt)
        ELSE IF c = DropoffCol(taxi_type) THEN dropoff
        ELSE IF c = "trip_distance" THEN dist
        ELSE IF c = "fare_amount" THEN fare
        ELSE IF c = "total_amount" THEN (IF fare.t = "str" THEN Num(0) ELSE fare)
        ELSE IF c \in {"tip_amount", "congestion_surcharge"} THEN tip
        ELSE Num(1)]

RawRows(taxi_type) ==
    {RawRow(taxi_type, d, t, f, p) :
        d \in DistVals, t \in DropoffVals, f \in FareVals, p \in TipVals}

\* A raw file of the vendor, with the columns in `missing` absent.
RawFrame(taxi_type, missing, rows) ==
    LET all == SourceCols(taxi_type) \o VendorOnly(taxi_type)
        keep(c) == c \notin missing
    IN SelectCols(Frame(all, rows), SelectSeq(all, keep))

\* No column missing, or one of the mapped columns missing.
MissingChoices(taxi_type) ==
    {{}} \cup {{c} : c \in Range(SourceCols(taxi_type))}

SeqsUpTo(S, n) == UNION {[1..k -> S] : k \in 0..n}

EmptyFrame == Frame(<<>>, <<>>)

BatchIdle ==
    /\ b_type = "yellow"
    /\ b_raw = EmptyFrame
    /\ b_stage = "idle"
    /\ b_df = EmptyFrame
    /\ b_clean = EmptyFrame
    /\ b_ghosts = EmptyFrame

BatchInit ==
    /\ b_type \in {"yellow", "green"}
    /\ \E m \in MissingChoices(b_type) :
         \E rows \in SeqsUpTo(RawRows(b_type), MaxRows) :
            b_raw = RawFrame(b_type, m, rows)
    /\ b_stage = "raw"
    /\ b_df = b_raw
    /\ b_clean = EmptyFrame
    /\ b_ghosts = EmptyFrame

\* q = standardize_schema(q, taxi_type); df_batch = q.collect()
Normalize ==
    /\ b_stage = "raw"
    /\ LET r == standardize_schema(b_raw, b_type)
       IN /\ b_stage' = IF r.ok THEN "normalized" ELSE "normalize_failed"
          /\ b_df' = r.df
    /\ UNCHANGED <<b_type, b_raw, b_clean, b_ghosts>>
    /\ UNCHANGED <<procVars, zoneVars, pipeVars, calcVars, raceVars>>

\* df_tagged = apply_ghost_logic(df_batch)
Classify ==
    /\ b_stage = "normalized"
    /\ IF GhostLogicRaises(b_df)
       THEN b_stage' = "classify_failed" /\ b_df' = b_df
       ELSE b_stage' = "tagged" /\ b_df' = apply_ghost_logic(b_df)
    /\ UNCHANGED <<b_type, b_raw, b_clean, b_ghosts>>
    /\ UNCHANGED <<procVars, zoneVars, pipeVars, calcVars, raceVars>>

\* df_ghosts / df_clean
Split ==
    /\ b_stage = "tagged"
    /\ b_stage' = "split"
    /\ b_ghosts' = SplitGhosts(b_df)
    /\ b_clean' = SplitClean(b_df)
    /\ UNCHANGED <<b_type, b_raw, b_df>>
    /\ UNCHANGED <<procVars, zoneVars, pipeVars, calcVars, raceVars>>

BatchNext == Normalize \/ Classify \/ Split

-----------------------------------------------------------------------------
(* process_data: the loop over sorted(glob("data/raw/*.parquet")).         *)
(* A file name is the sequence of its parts, so that the substring test,   *)
(* the prefixing and the extension replace are computed as the code does.  *)

MaxRuns == 2
MaxEdits == 1

RAW_DIR == <<"data/raw", "/">>
PROCESSED_DIR == <<"data/processed", "/">>
AUDIT_DIR == <<"data/audit", "/">>

GreenJan == <<"green", "_tripdata_", "2025-01", ".parquet">>
YellowJan == <<"yellow", "_tripdata_", "2025-01", ".parquet">>

\* sorted(glob(...)): "green..." sorts before "yellow...".
files == <<GreenJan, YellowJan>>

\* "yellow" if "yellow" in file_name else "green"
TaxiTypeOf(file_name) ==
    IF "yellow" \in Range(file_name) THEN "yellow" ELSE "green"

\* A clean path that also carries the number of the run.
CleanPath_PerRun(file_name) ==
    PROCESSED_DIR \o <<"clean_", ToString(runs), "_">> \o file_name

\* os.path.join(PROCESSED_DIR, f"clean_{file_name}")
CleanPath(file_name) == PROCESSED_DIR \o <<"clean_">> \o file_name

\* s.replace(".parquet", ".csv")
ReplaceExt(s) ==
    [i \in 1..Len(s) |-> IF s[i] = ".parquet" THEN ".csv" ELSE s[i]]

\* os.path.join(AUDIT_DIR, f"audit_{file_name}".replace(".parquet", ".csv"))
AuditPath(file_name) == AUDIT_DIR \o ReplaceExt(<<"audit_">> \o file_name)

AuditCols ==
    <<"pickup_time", "trip_distance", "fare", "duration_min", "speed_mph",
      "ghost_reason">>

\* dict/dir update: bind k to v.
Put(d, k, v) ==
    [x \in DOMAIN d \cup {k} |-> IF x = k THEN v ELSE d[x]]

\* len(a) + len(b) # len(total): the warning branch of step 4.
CountMismatch(total, clean, ghosts) ==
    Len(total.rows) # Len(clean.rows) + Len(ghosts.rows)

\* The audit file written for every file.
AuditWanted_Always(ghosts) == TRUE

\* if ghost_count > 0
AuditWanted(ghosts) == Len(ghosts.rows) > 0

\* The clean frame written with the derived columns left in.
CleanOutput_KeepsDerived(df_clean) == df_clean

\* df_clean.drop(["duration_min", "speed_mph", "ghost_reason"])
CleanOutput(df_clean) == DropCols(df_clean, Range(DerivedCols))

\* df_ghosts.select([...])
AuditOutput(df_ghosts) == SelectCols(df_ghosts, AuditCols)

\* One pass of the try block for one file.  `fault` is the write the file
\* system refuses in this pass, if any; a refused write leaves its target
\* as it was.  The result names the step that raised ("" when none), what
\* was printed, and the writes that happened before any raise.
TryFile(file_name, entry, fault) ==
    LET base == [file |-> file_name, step |-> "", total |-> 0, clean |-> 0,
                 ghosts |-> 0, warned |-> FALSE, split |-> FALSE,
                 df_tagged |-> EmptyFrame, df_ghosts |-> EmptyFrame,
                 df_clean |-> EmptyFrame,
                 writeClean |-> FALSE, cleanOut |-> EmptyFrame,
                 writeAudit |-> FALSE, auditOut |-> EmptyFrame]
        norm == standardize_schema(entry.frame, TaxiTypeOf(file_name))
        tagged == apply_ghost_logic(norm.df)
        df_ghosts == SplitGhosts(tagged)
        df_clean == SplitClean(tagged)
        stats == [base EXCEPT !.total = Len(tagged.rows),
                              !.clean = Len(df_clean.rows),
                              !.ghosts = Len(df_ghosts.rows),
                              !.warned = CountMismatch(tagged, df_clean, df_ghosts),
                              !.split = TRUE,
                              !.df_tagged = tagged,
                              !.df_ghosts = df_ghosts,
                              !.df_clean = df_clean]
        written == [stats EXCEPT !.writeClean = TRUE,
                                 !.cleanOut = CleanOutput(df_clean)]
    IN IF ~entry.readable THEN [base EXCEPT !.step = "load"]
       ELSE IF ~norm.ok THEN [base EXCEPT !.step = "normalize"]
       ELSE IF GhostLogicRaises(norm.df) THEN [base EXCEPT !.step = "classify"]
       ELSE IF fault = "clean_write" THEN [stats EXCEPT !.step = "clean_write"]
       ELSE IF ~AuditWanted(df_ghosts) THEN written
       ELSE IF fault = "audit_write" THEN [written EXCEPT !.step = "audit_write"]
       ELSE [written EXCEPT !.writeAudit = TRUE,
                            !.auditOut = AuditOutput(df_ghosts)]

\* The line printed by the except branch names the file; otherwise the
\* stats line and the audit/clean line.
LogLine(r) ==
    [file |-> r.file, error |-> r.step # "", step |-> r.step,
     total |-> r.total, clean |-> r.clean, ghosts |-> r.ghosts,
     warned |-> r.warned]

\* ---- raw files the ingestion step can leave in data/raw
RowPlain(t) == RawRow(t, Num(10), Num(PickupAt + 600), Num(25), Num(2))
RowGhost(t) == RawRow(t, Num(0 - 100), Num(PickupAt - 60), Num(25), Null)
RowNulls(t) == RawRow(t, Null, Null, Null, Null)

RawEntry(readable, frame) == [readable |-> readable, frame |-> frame]

\* A full file with plausible, all-null and implausible trips; a full file
\* with no implausible trip; files lacking one column; an unreadable file.
RawChoices(file_name) ==
    LET t == TaxiTypeOf(file_name)
    IN { RawEntry(TRUE, RawFrame(t, {}, <<RowPlain(t), RowNulls(t), RowGhost(t)>>)),
         RawEntry(TRUE, RawFrame(t, {}, <<RowPlain(t)>>)),
         RawEntry(TRUE, RawFrame(t, {"congestion_surcharge"}, <<RowPlain(t)>>)),
         RawEntry(TRUE, RawFrame(t, {DropoffCol(t)}, <<RowPlain(t)>>)),
         RawEntry(TRUE, RawFrame(t, {"PULocationID"}, <<RowPlain(t), RowGhost(t)>>)),
         RawEntry(FALSE, EmptyFrame) }

Faults == {"none", "clean_write", "audit_write"}

NeverProcessed == RawEntry(FALSE, Frame(<<"never">>, <<>>))

EmptyStore == [x \in {} |-> EmptyFrame]

NoLocals ==
    [df_tagged |-> EmptyFrame, df_ghosts |-> EmptyFrame, df_clean |-> EmptyFrame]

ProcIdle ==
    /\ raw = [f \in Range(files) |-> RawEntry(FALSE, EmptyFrame)]
    /\ cleanStore = EmptyStore
    /\ auditStore = EmptyStore
    /\ pc = "idle"
    /\ idx = 1
    /\ log = <<>>
    /\ locals = NoLocals
    /\ cleanFrom = [f \in Range(files) |-> NeverProcessed]
    /\ runs = 0
    /\ edits = 0

ProcInit ==
    /\ \E g \in RawChoices(GreenJan), y \in RawChoices(YellowJan) :
          raw = [f \in Range(files) |-> IF f = GreenJan THEN g ELSE y]
    /\ cleanStore = EmptyStore
    /\ auditStore = EmptyStore
    /\ pc = "idle"
    /\ idx = 1
    /\ log = <<>>
    /\ locals = NoLocals
    /\ cleanFrom = [f \in Range(files) |-> NeverProcessed]
    /\ runs = 0
    /\ edits = 0

\* process_data() is called: the file list is globbed and the loop entered.
StartRun ==
    /\ pc \in {"idle", "done"}
    /\ runs < MaxRuns
    /\ pc' = "loop"
    /\ idx' = 1
    /\ log' = <<>>
    /\ runs' = runs + 1
    /\ locals' = NoLocals
    /\ UNCHANGED <<raw, cleanStore, auditStore, cleanFrom, edits>>
    /\ UNCHANGED <<batchVars, zoneVars, pipeVars, calcVars, raceVars>>

\* The loop without the except branch: an exception ends process_data.
ContinueLoop_NoExcept(r) ==
    IF r.step = ""
    THEN idx' = idx + 1 /\ pc' = pc /\ log' = Append(log, LogLine(r))
    ELSE idx' = idx /\ pc' = "idle" /\ log' = log

\* The except branch prints the error with the file name, and the for
\* statement moves to the next file whether or not the body raised.
ContinueLoop(r) ==
    idx' = idx + 1 /\ pc' = pc /\ log' = Append(log, LogLine(r))

\* One iteration of the for loop: the whole try/except for files[idx].
ProcessFile ==
    /\ pc = "loop"
    /\ idx <= Len(files)
    /\ \E fault \in Faults :
         LET f == files[idx]
             r == TryFile(f, raw[f], fault)
         IN /\ cleanStore' = IF r.writeClean
                             THEN Put(cleanStore, CleanPath(f), r.cleanOut)
                             ELSE cleanStore
            /\ auditStore' = IF r.writeAudit
                             THEN Put(auditStore, AuditPath(f), r.auditOut)
                             ELSE auditStore
            /\ ContinueLoop(r)
            /\ locals' = IF r.split
                         THEN [df_tagged |-> r.df_tagged,
                               df_ghosts |-> r.df_ghosts,
                               df_clean |-> r.df_clean]
                         ELSE locals
            /\ cleanFrom' = IF r.writeClean
                            THEN [cleanFrom EXCEPT ![f] = raw[f]]
                            ELSE cleanFrom
    /\ UNCHANGED <<raw, runs, edits>>
    /\ UNCHANGED <<batchVars, zoneVars, pipeVars, calcVars, raceVars>>

\* The loop is exhausted: "Processing Complete" is printed.
FinishRun ==
    /\ pc = "loop"
    /\ idx > Len(files)
    /\ pc' = "done"
    /\ UNCHANGED <<raw, cleanStore, auditStore, idx, log, locals, cleanFrom,
                   runs, edits>>
    /\ UNCHANGED <<batchVars, zoneVars, pipeVars, calcVars, raceVars>>

\* Between runs the ingestion step replaces a raw file.
ReplaceRaw ==
    /\ pc \in {"idle", "done"}
    /\ edits < MaxEdits
    /\ \E f \in Range(files) : \E e \in RawChoices(f) :
          /\ e # raw[f]
          /\ raw' = [raw EXCEPT ![f] = e]
    /\ edits' = edits + 1
    /\ UNCHANGED <<cleanStore, auditStore, pc, idx, log, locals, cleanFrom, runs>>
    /\ UNCHANGED <<batchVars, zoneVars, pipeVars, calcVars, raceVars>>

Next == StartRun \/ ProcessFile \/ FinishRun \/ ReplaceRaw

-----------------------------------------------------------------------------
(* The zone classifier.  A zone row carries the latitude of its centroid   *)
(* in thousandths of a degree, or no latitude when it has no geometry.     *)

MaxZones == 3

LATITUDE_CUTOFF_60TH_ST == 40764
BorderLower == 40764
BorderUpper == 40790

NotComputed == <<0 - 1>>

\* gdf[gdf['borough'] == 'Manhattan']
ManhattanZones(rows) ==
    LET manhattan(z) == z.borough = "Manhattan"
    IN SelectSeq(rows, manhattan)

\* frame['LocationID'].tolist()
LocationIDs(rows) == [i \in 1..Len(rows) |-> rows[i].LocationID]

\* The cutoff with the boundary latitude counted as inside.
SouthOf60th_Inclusive(z) ==
    ~IsNull(z.latitude) /\ z.latitude.v <= LATITUDE_CUTOFF_60TH_ST

\* manhattan_zones['latitude'] < LATITUDE_CUTOFF_60TH_ST (NaN compares false)
SouthOf60th(z) ==
    ~IsNull(z.latitude) /\ z.latitude.v < LATITUDE_CUTOFF_60TH_ST

\* (latitude >= 40.764) & (latitude < 40.790)
InBorderBand(z) ==
    /\ ~IsNull(z.latitude)
    /\ z.latitude.v >= BorderLower
    /\ z.latitude.v < BorderUpper

get_congestion_zone_ids(rows) ==
    LocationIDs(SelectSeq(ManhattanZones(rows), SouthOf60th))

get_border_zone_ids(rows) ==
    LocationIDs(SelectSeq(ManhattanZones(rows), InBorderBand))

Boroughs == {"Manhattan", "Brooklyn"}

Latitudes ==
    {Null, Num(40700), Num(40763), Num(40764), Num(40780), Num(40789),
     Num(40790), Num(40800)}

\* Zone tables of up to MaxZones rows; LocationID is the key of the table.
ZoneTables ==
    UNION {[1..k -> [borough : Boroughs, latitude : Latitudes]] : k \in 0..MaxZones}

WithIDs(t) ==
    [i \in 1..Len(t) |->
        [LocationID |-> i, borough |-> t[i].borough, latitude |-> t[i].latitude]]

ZonesIdle ==
    /\ gdf = <<>>
    /\ zone_ids = NotComputed
    /\ border_ids = NotComputed

ZonesInit ==
    /\ \E t \in ZoneTables : gdf = WithIDs(t)
    /\ zone_ids = NotComputed
    /\ border_ids = NotComputed

CongestionCall ==
    /\ zone_ids = NotComputed
    /\ zone_ids' = get_congestion_zone_ids(gdf)
    /\ UNCHANGED <<gdf, border_ids>>
    /\ UNCHANGED <<batchVars, procVars, pipeVars, calcVars, raceVars>>

BorderCall ==
    /\ border_ids = NotComputed
    /\ border_ids' = get_border_zone_ids(gdf)
    /\ UNCHANGED <<gdf, zone_ids>>
    /\ UNCHANGED <<batchVars, procVars, pipeVars, calcVars, raceVars>>

ZonesNext == CongestionCall \/ BorderCall

-----------------------------------------------------------------------------
(* The analyses, in the order run_pipeline calls them.  A stored file is   *)
(* [dir, taxi, year, month] for {dir}/[clean_]{taxi}_tripdata_{year}-      *)
(* {month}.parquet; a glob pattern is the set of such files it matches.    *)

Q1Months == {"01", "02", "03"}

StoredFiles ==
    [dir : {"data/processed"}, taxi : {"yellow", "green"},
     year : {2024, 2025}, month : {"01", "06"}]
    \cup
    [dir : {"data/raw"}, taxi : {"yellow", "green"},
     year : {2024}, month : {"01", "06"}]

\* glob.glob(os.path.join(PROCESSED_DIR, "clean_*_2025*.parquet"))
Glob2025 == {f \in store : f.dir = "data/processed" /\ f.year = 2025}

\* glob of f"clean_{taxi_type}_*{year}-0[1-3]*.parquet" under dir
GlobQuarter(dir, taxi, year) ==
    {f \in store : /\ f.dir = dir /\ f.taxi = taxi /\ f.year = year
                   /\ f.month \in Q1Months}

\* glob of f"clean_yellow_tripdata_{year}-*.parquet" under dir
GlobYellowYear(dir, year) ==
    {f \in store : f.dir = dir /\ f.taxi = "yellow" /\ f.year = year}

load_data_AnyYear(processed, rawMatch, year) ==
    IF processed # {} THEN processed
    ELSE IF rawMatch # {} THEN rawMatch
    ELSE {}

\* load_data(pattern, year), given what the pattern matches in
\* data/processed and what the rewritten pattern matches in data/raw:
\* the files the returned query scans, or {} for None.
load_data(processed, rawMatch, year) ==
    IF processed # {} THEN processed
    ELSE IF year = 2024 /\ rawMatch # {} THEN rawMatch
    ELSE {}

VolumeInput(taxi, year) ==
    load_data(GlobQuarter("data/processed", taxi, year),
              GlobQuarter("data/raw", taxi, year), year)

BorderInput(year) ==
    load_data(GlobYellowYear("data/processed", year),
              GlobYellowYear("data/raw", year), year)

VelocityInput(year) ==
    load_data(GlobQuarter("data/processed", "yellow", year),
              GlobQuarter("data/raw", "yellow", year), year)

\* What one call did: raised out of the function, printed a message about
\* missing input, wrote a result table.
Did(raised, message, wrote) ==
    [ran |-> TRUE, raised |-> raised, message |-> message, wrote |-> wrote]

NotRun == [ran |-> FALSE, raised |-> FALSE, message |-> FALSE, wrote |-> FALSE]

\* analyze_leakage: the zone lookup is guarded, the pattern is globbed
\* before it is scanned.
analyze_leakage ==
    IF ~shapefile THEN Did(FALSE, TRUE, FALSE)
    ELSE IF Glob2025 = {} THEN Did(FALSE, TRUE, FALSE)
    ELSE Did(FALSE, FALSE, TRUE)

\* compare_volumes: the zone lookup is not guarded; a pair without data is
\* passed over with `continue`; the table is written from the rows found.
compare_volumes ==
    IF ~shapefile THEN Did(TRUE, FALSE, FALSE)
    ELSE Did(FALSE, FALSE, TRUE)

\* analyze_border_effect: a year without data prints and counts as zeros.
analyze_border_effect ==
    IF ~shapefile THEN Did(TRUE, FALSE, FALSE)
    ELSE Did(FALSE, \E y \in {2024, 2025} : BorderInput(y) = {}, TRUE)

\* analyze_velocity_heatmap: a year without data is passed over with
\* `continue`; one table per year that has data.
analyze_velocity_heatmap ==
    IF ~shapefile THEN Did(TRUE, FALSE, FALSE)
    ELSE Did(FALSE, FALSE, \E y \in {2024, 2025} : VelocityInput(y) # {})

\* glob of "clean_yellow_tripdata_2025*.parquet"
GlobTips ==
    {f \in store : f.dir = "data/processed" /\ f.taxi = "yellow" /\ f.year = 2025}

\* analyze_tips_economics: scan_parquet is called before the try block
\* and collect() inside it.  With no file matching, a build that resolves
\* the glob in scan_parquet raises there; a build that resolves it in
\* collect() raises inside the try and the except branch prints.
analyze_tips_economics ==
    IF GlobTips # {} THEN Did(FALSE, FALSE, TRUE)
    ELSE IF eagerScan THEN Did(TRUE, FALSE, FALSE)
    ELSE Did(FALSE, TRUE, FALSE)

Analyses == <<"leakage", "volumes", "border", "velocity", "tips">>

PipeIdle ==
    /\ store = {}
    /\ shapefile = TRUE
    /\ eagerScan = FALSE
    /\ step = 0
    /\ outcome = [a \in Range(Analyses) |-> NotRun]

PipeInit ==
    /\ store \in SUBSET StoredFiles
    /\ shapefile \in BOOLEAN
    /\ eagerScan \in BOOLEAN
    /\ step = 1
    /\ outcome = [a \in Range(Analyses) |-> NotRun]

\* run_pipeline has no try block: an analysis that raises ends the run.
Call(name, did) ==
    /\ step \in 1..Len(Analyses)
    /\ Analyses[step] = name
    /\ outcome' = [outcome EXCEPT ![name] = did]
    /\ step' = IF did.raised THEN 0 - 1 ELSE step + 1
    /\ UNCHANGED <<store, shapefile, eagerScan>>
    /\ UNCHANGED <<batchVars, procVars, zoneVars, calcVars, raceVars>>

Leakage == Call("leakage", analyze_leakage)
Volumes == Call("volumes", compare_volumes)
BorderEffect == Call("border", analyze_border_effect)
Velocity == Call("velocity", analyze_velocity_heatmap)
Tips == Call("tips", analyze_tips_economics)

PipeNext == Leakage \/ Volumes \/ BorderEffect \/ Velocity \/ Tips

-----------------------------------------------------------------------------
(* One analysis as a function of what it reads.  The row order of a        *)
(* group_by or of a join is not specified, and no analysis below depends   *)
(* on it before its own sort: a table is the set of its rows.              *)

NotRet == [kind |-> "none"]

CalcIdle ==
    /\ job = "idle"
    /\ args = [kind |-> "none"]
    /\ ret = NotRet

-----------------------------------------------------------------------------
(* The five analyses called side by side, one step of one call at a time.  *)
(* Every analysis but the tip economics loads the zones through            *)
(* download_and_extract_shapefile and gpd.read_file; analyze_leakage and   *)
(* analyze_border_effect load them a second time for the lookup.  The      *)
(* directory data/shapefiles exists, the download succeeds, and the store  *)
(* holds the files every analysis reads.                                   *)

NeedsZones == {"leakage", "volumes", "border", "velocity"}

NeedsLookup == {"leakage", "border"}

OutputOf_Shared(a) ==
    IF a = "leakage" THEN {"leakage_audit.csv"}
    ELSE IF a = "volumes" THEN {"volume_comparison.csv"}
    ELSE IF a = "tips" THEN {"tips_economics.csv"}
    ELSE {"border_effect.csv"}

\* The result files an analysis writes with write_csv.
OutputOf(a) ==
    IF a = "leakage" THEN {"leakage_audit.csv"}
    ELSE IF a = "volumes" THEN {"volume_comparison.csv"}
    ELSE IF a = "border" THEN {"border_effect.csv"}
    ELSE IF a = "velocity"
         THEN {"velocity_heatmap_2024.csv", "velocity_heatmap_2025.csv"}
    ELSE {"tips_economics.csv"}

ZipName == "taxi_zones.zip"

ShpName == "taxi_zones.shp"

RaceFiles == UNION {OutputOf(a) : a \in Range(Analyses)} \cup {ZipName, ShpName}

RaceIdle ==
    /\ apc = [a \in Range(Analyses) |-> "idle"]
    /\ zipFile = "absent"
    /\ shpFile = "absent"
    /\ writers = [f \in RaceFiles |-> {}]
    /\ readyAtStart = FALSE

-----------------------------------------------------------------------------
Init == ProcInit /\ BatchIdle /\ ZonesIdle /\ PipeIdle /\ CalcIdle /\ RaceIdle

Spec == Init /\ [][Next]_vars

InitBatch == BatchInit /\ ProcIdle /\ ZonesIdle /\ PipeIdle /\ CalcIdle /\ RaceIdle

SpecBatch == InitBatch /\ [][BatchNext]_vars

InitZones == ZonesInit /\ ProcIdle /\ BatchIdle /\ PipeIdle /\ CalcIdle /\ RaceIdle

SpecZones == InitZones /\ [][ZonesNext]_vars

InitPipe == PipeInit /\ ProcIdle /\ BatchIdle /\ ZonesIdle /\ CalcIdle /\ RaceIdle

SpecPipe == InitPipe /\ [][PipeNext]_vars

-----------------------------------------------------------------------------
(* Properties of process_data (checked under Spec).                        *)

CanonicalCols ==
    {"pickup_time", "dropoff_time", "pickup_loc", "dropoff_loc",
     "trip_distance", "fare", "total_amount", "tip_amount",
     "congestion_surcharge"}

\* C1: in every split the clean rows are the rows without a ghost reason,
\* the ghost rows are the rows with one, no row is in both, every input row
\* is in one of them, the counts add up, and no run prints the row-count
\* warning -- also for rows whose derived fields or fare are null.
C1_PartitionExact ==
    LET t == locals.df_tagged.rows
        c == locals.df_clean.rows
        g == locals.df_ghosts.rows
    IN /\ Len(t) = Len(c) + Len(g)
       /\ \A i \in 1..Len(c) : IsNull(c[i]["ghost_reason"])
       /\ \A i \in 1..Len(g) : ~IsNull(g[i]["ghost_reason"])
       /\ Range(c) \cap Range(g) = {}
       /\ Range(c) \cup Range(g) = Range(t)
       /\ \A i \in 1..Len(log) : ~log[i].warned

C1_Witness ==
    /\ Len(locals.df_tagged.rows) = 3
    /\ Len(locals.df_clean.rows) = 2
    /\ Len(locals.df_ghosts.rows) = 1
    /\ \E i \in 1..2 :
          /\ IsNull(locals.df_clean.rows[i]["speed_mph"])
          /\ IsNull(locals.df_clean.rows[i]["fare"])

\* A raw entry whose processing raises before anything is written.
Defective(f) ==
    \/ ~raw[f].readable
    \/ "congestion_surcharge" \notin Range(raw[f].frame.cols)
    \/ DropoffCol(TaxiTypeOf(f)) \notin Range(raw[f].frame.cols)

\* C5: a failure on one file is printed with that file's name, the loop
\* moves on to the next file, and a run that has started ends with every
\* file of the list attempted, in order.
C5_FailureSkipsOneFile ==
    /\ \A i \in 1..Len(log) : log[i].file = files[i]
    /\ pc = "loop" =>
          /\ Len(log) = idx - 1
          /\ \A i \in 1..Len(log) : Defective(files[i]) => log[i].error
          /\ idx \in 1..(Len(files) + 1)
    /\ (pc # "loop" /\ runs > 0) => (pc = "done" /\ Len(log) = Len(files))

C5_Witness ==
    /\ pc = "done"
    /\ log[1].error /\ log[1].step = "normalize"
    /\ ~log[2].error /\ log[2].total > 0
    /\ CleanPath(files[2]) \in DOMAIN cleanStore

\* C6: every audit file holds at least one ghost row, and a file whose
\* pass counted zero ghosts got no audit file from that pass.
C6_NoEmptyAudit ==
    /\ \A p \in DOMAIN auditStore : Len(auditStore[p].rows) > 0
    /\ \A i \in 1..Len(log) :
          (~log[i].error /\ log[i].ghosts = 0 /\ runs = 1)
              => AuditPath(log[i].file) \notin DOMAIN auditStore

C6_Witness ==
    /\ pc = "done" /\ runs = 1
    /\ ~log[1].error /\ log[1].ghosts = 0
    /\ AuditPath(files[1]) \notin DOMAIN auditStore
    /\ CleanPath(files[1]) \in DOMAIN cleanStore
    /\ ~log[2].error /\ log[2].ghosts > 0
    /\ AuditPath(files[2]) \in DOMAIN auditStore

\* C7: the clean store holds one file per input file whose clean write has
\* happened, whatever the number of runs, and processing a file again from
\* the raw content its clean file was written from leaves that clean file
\* with the same content.
C7_CleanStoreIdempotent ==
    /\ [](Cardinality(DOMAIN cleanStore) =
            Cardinality({f \in Range(files) : cleanFrom[f] # NeverProcessed}))
    /\ [](\A i \in 1..Len(log) :
            ~log[i].error => CleanPath(log[i].file) \in DOMAIN cleanStore)
    /\ [][\A f \in Range(files) :
            (cleanFrom[f] = raw[f] /\ cleanFrom'[f] = raw'[f])
                => /\ CleanPath(f) \in DOMAIN cleanStore'
                   /\ cleanStore'[CleanPath(f)] = cleanStore[CleanPath(f)]]_vars

C7_Witness ==
    /\ runs = 2 /\ pc = "done" /\ edits = 0
    /\ \A i \in 1..Len(files) : ~log[i].error /\ log[i].clean > 0
    /\ Cardinality(DOMAIN cleanStore) = Len(files)

-----------------------------------------------------------------------------
(* Properties of standardize_schema and apply_ghost_logic (checked under   *)
(* SpecBatch).                                                             *)

\* A cell n/d compared with k, two-valued: null satisfies nothing.
Above(q, k) ==
    /\ ~IsNull(q)
    /\ \/ q.d > 0 /\ q.n > k * q.d
       \/ q.d < 0 /\ q.n < k * q.d

Below(q, k) ==
    /\ ~IsNull(q)
    /\ \/ q.d > 0 /\ q.n < k * q.d
       \/ q.d < 0 /\ q.n > k * q.d

Sat1(row) == Above(row["speed_mph"], 65)
Sat2(row) ==
    /\ Below(row["duration_min"], 1)
    /\ ~IsNull(row["fare"]) /\ row["fare"].v > 20
Sat3(row) ==
    /\ ~IsNull(row["trip_distance"]) /\ row["trip_distance"].v = 0
    /\ ~IsNull(row["fare"]) /\ row["fare"].v > 0
Sat4(row) == Below(row["duration_min"], 0)

\* C2: each tagged row carries the reason of the first rule it satisfies in
\* the order speed, teleporter, stationary, negative duration, and no
\* reason when it satisfies none; a row satisfying the speed rule and the
\* negative-duration rule is tagged "Impossible Physics (>65mph)".
C2_FirstMatchWins ==
    b_stage \in {"tagged", "split"} =>
        \A i \in 1..Len(b_df.rows) :
            LET row == b_df.rows[i]
                want == IF Sat1(row) THEN Text("Impossible Physics (>65mph)")
                        ELSE IF Sat2(row) THEN Text("Teleporter (<1min, >$20)")
                        ELSE IF Sat3(row) THEN Text("Stationary Ride (0mi, >$0)")
                        ELSE IF Sat4(row)
                             THEN Text("Time Travel (Negative Duration)")
                        ELSE Null
            IN row["ghost_reason"] = want

C2_Witness ==
    /\ b_stage = "tagged"
    /\ \E i \in 1..Len(b_df.rows) :
          /\ Sat1(b_df.rows[i]) /\ Sat4(b_df.rows[i])
          /\ b_df.rows[i]["ghost_reason"] = Text("Impossible Physics (>65mph)")

\* The raw batch lacks exactly the column c and every cell parses.
LacksOnly(c) ==
    /\ Range(SourceCols(b_type)) \ Range(b_raw.cols) = {c}
    /\ \A i \in 1..Len(b_raw.rows) : b_raw.rows[i]["fare_amount"].t # "str"

\* C3: a raw batch lacking only congestion_surcharge, or only tip_amount,
\* normalizes, and the missing field is 0.0 in every canonical record.
C3_MissingOptionalDefaults ==
    \A c \in {"congestion_surcharge", "tip_amount"} :
        (LacksOnly(c) /\ b_stage # "raw") =>
            /\ b_stage # "normalize_failed"
            /\ HasCol(b_df, c)
            /\ \A i \in 1..Len(b_df.rows) : b_df.rows[i][c] = Num(0)

\* C4: whenever normalization succeeds the frame has exactly the nine
\* canonical columns, each once.
C4_ExactlyCanonical ==
    b_stage = "normalized" =>
        /\ Range(b_df.cols) = CanonicalCols
        /\ Len(b_df.cols) = 9
        /\ NoDuplicates(b_df.cols)

-----------------------------------------------------------------------------
(* Properties of the zone classifier (checked under SpecZones).            *)

\* C9: a zone is in the congestion list exactly when it is a Manhattan zone
\* with latitude < 40.764, and in the border list exactly when it is a
\* Manhattan zone with 40.764 <= latitude < 40.790.
C9_ZoneMembership ==
    /\ zone_ids # NotComputed =>
          \A i \in 1..Len(gdf) :
              gdf[i].LocationID \in Range(zone_ids)
                  <=> /\ gdf[i].borough = "Manhattan"
                      /\ gdf[i].latitude.t = "num"
                      /\ gdf[i].latitude.v < 40764
    /\ border_ids # NotComputed =>
          \A i \in 1..Len(gdf) :
              gdf[i].LocationID \in Range(border_ids)
                  <=> /\ gdf[i].borough = "Manhattan"
                      /\ gdf[i].latitude.t = "num"
                      /\ gdf[i].latitude.v >= 40764
                      /\ gdf[i].latitude.v < 40790

\* A Manhattan zone at exactly 40.764 is border and not congestion, a
\* Manhattan zone at 40.700 is congestion, a Brooklyn zone at 40.700 neither.
C9_Witness ==
    /\ zone_ids # NotComputed /\ border_ids # NotComputed
    /\ Len(gdf) = 3
    /\ gdf[1] = [LocationID |-> 1, borough |-> "Manhattan", latitude |-> Num(40764)]
    /\ gdf[2] = [LocationID |-> 2, borough |-> "Manhattan", latitude |-> Num(40700)]
    /\ gdf[3] = [LocationID |-> 3, borough |-> "Brooklyn", latitude |-> Num(40700)]
    /\ zone_ids = <<2>>
    /\ border_ids = <<1>>

-----------------------------------------------------------------------------
(* Properties of the analyses (checked under SpecPipe).                    *)

\* Every pattern the analysis loads from matches no file.
NoInput(a) ==
    IF a = "leakage" THEN Glob2025 = {}
    ELSE IF a = "volumes"
         THEN \A t \in {"yellow", "green"}, y \in {2024, 2025} : VolumeInput(t, y) = {}
    ELSE IF a = "border" THEN \A y \in {2024, 2025} : BorderInput(y) = {}
    ELSE IF a = "velocity" THEN \A y \in {2024, 2025} : VelocityInput(y) = {}
    ELSE GlobTips = {}

\* C10: an analysis called when no file matches its pattern does not raise,
\* and run_pipeline goes on to the analyses scheduled after it.
C10_MissingInputNeverRaises ==
    \A i \in 1..Len(Analyses) :
        LET a == Analyses[i]
        IN (shapefile /\ outcome[a].ran /\ NoInput(a)) =>
              /\ ~outcome[a].raised
              /\ step # 0 - 1

\* C11: when the zone shapefile cannot be loaded, a run of the pipeline that
\* has stopped has still run the tip economics analysis to completion.
C11_ShapefileFailureNonFatal ==
    (~shapefile /\ step \notin 1..Len(Analyses)) =>
        /\ outcome["tips"].ran
        /\ ~outcome["tips"].raised

-----------------------------------------------------------------------------
(* analyze_border_effect.  A year's query is what load_data returned:      *)
(* [src |-> "none"] for None, else [src, cols, n] with src "clean" or      *)
(* "raw" (the directory scanned), cols the column names and n[z] the       *)
(* number of rows whose drop-off zone is z.  pl.len() counts are UInt32;   *)
(* the counts of the dummy table are Python ints, Int64.                   *)

Half == 2^16

\* A UInt32 value as two 16-bit limbs, hi * 2^16 + lo.
U32(n) == [t |-> "u32", hi |-> n \div Half, lo |-> n % Half]

\* UInt32 - UInt32: the difference modulo 2^32.
SubU32(a, b) ==
    LET borrow == IF a.lo < b.lo THEN 1 ELSE 0
    IN [t |-> "u32", hi |-> (a.hi - b.hi - borrow) % Half,
                     lo |-> (a.lo - b.lo) % Half]

\* The value of a count cell whose high limb is zero or which is Int64.
IntOf(x) == IF x.t = "u32" THEN x.hi * Half + x.lo ELSE x.v

\* a - b of two count columns: UInt32 when both are, else their supertype
\* Int64.
Minus(a, b) ==
    IF a.t = "u32" /\ b.t = "u32" THEN SubU32(a, b)
    ELSE Num(IntOf(a) - IntOf(b))

\* pl.col(c) > k for a count column without nulls.
GtCount(x, k) == IF x.t = "u32" THEN x.hi > 0 \/ x.lo > k ELSE x.v > k

\* fill_null(0) of one cell of a column of the given dtype.
FillNull(x, dtype) ==
    IF ~IsNull(x) THEN x
    ELSE IF dtype = "u32" THEN U32(0) ELSE Num(0)

NoData == [src |-> "none"]

\* if "clean" not in str(q) and "DOLocationID" in q.columns: q.rename(...)
RenameDropoff(q) ==
    IF q.src # "clean" /\ "DOLocationID" \in q.cols
    THEN [q EXCEPT !.cols = (q.cols \ {"DOLocationID"}) \cup {"dropoff_loc"}]
    ELSE q

\* The dtype of the trips column of a year's aggregate.
TripsDtype(q) == IF q.src = "none" THEN "i64" ELSE "u32"

\* One year's aggregate: the dummy zeros for every border zone, or
\* filter(is_in(border_ids)).group_by("dropoff_loc").agg(pl.len()).
YearAgg(q, ids) ==
    IF q.src = "none"
    THEN {[dropoff_loc |-> Num(z), trips |-> Num(0)] : z \in Range(ids)}
    ELSE LET renamed == RenameDropoff(q)
         IN {[dropoff_loc |-> Num(z), trips |-> U32(renamed.n[z])] :
                z \in {w \in DOMAIN renamed.n :
                          w \in Range(ids) /\ renamed.n[w] > 0}}

\* df_24.join(df_25, on="dropoff_loc", how="outer"): the key of each side
\* is kept, the right one as dropoff_loc_right, and a row without a
\* partner has nulls in the columns of the other side.
OuterJoin(df_24, df_25) ==
    {[dropoff_loc |-> p[1].dropoff_loc, trips_2024 |-> p[1].trips,
      dropoff_loc_right |-> p[2].dropoff_loc, trips_2025 |-> p[2].trips] :
        p \in {m \in df_24 \X df_25 : m[1].dropoff_loc = m[2].dropoff_loc}}
    \cup
    {[dropoff_loc |-> l.dropoff_loc, trips_2024 |-> l.trips,
      dropoff_loc_right |-> Null, trips_2025 |-> Null] :
        l \in {m \in df_24 : \A r \in df_25 : r.dropoff_loc # m.dropoff_loc}}
    \cup
    {[dropoff_loc |-> Null, trips_2024 |-> Null,
      dropoff_loc_right |-> r.dropoff_loc, trips_2025 |-> r.trips] :
        r \in {m \in df_25 : \A l \in df_24 : l.dropoff_loc # m.dropoff_loc}}

\* .fill_null(0) over every column of the joined table.
FillJoined(row, dtype24, dtype25) ==
    [dropoff_loc |-> FillNull(row.dropoff_loc, "i64"),
     trips_2024 |-> FillNull(row.trips_2024, dtype24),
     dropoff_loc_right |-> FillNull(row.dropoff_loc_right, "i64"),
     trips_2025 |-> FillNull(row.trips_2025, dtype25)]

\* pl.when(trips_2024 > 50).then(((trips_2025 - trips_2024) / trips_2024)
\* * 100).otherwise(0.0): the value 100 * diff / den.
BaselineAtLeast50(x) == GtCount(x, 49)

BaselineOver50(x) == GtCount(x, 50)

PctChange(row) ==
    IF BaselineOver50(row.trips_2024)
    THEN [diff |-> Minus(row.trips_2025, row.trips_2024),
          den |-> IntOf(row.trips_2024)]
    ELSE [diff |-> Num(0), den |-> 1]

\* final_df.join(lookup, left_on="dropoff_loc", right_on="LocationID")
LookupJoin(rows, lookup) ==
    {[borough |-> lookup[m.i].borough] @@ m.row :
        m \in {x \in [row : rows, i : 1..Len(lookup)] :
                  lookup[x.i].LocationID = x.row.dropoff_loc.v}}

\* pl.col("dropoff_loc") of a query without that column: ColumnNotFound.
LacksDropoff(q) == q.src # "none" /\ "dropoff_loc" \notin RenameDropoff(q).cols

Raised == [kind |-> "raised"]

Table(rows) == [kind |-> "table", rows |-> rows]

\* The table written to border_effect.csv.
BorderFinalDf(lookup, q24, q25) ==
    LET ids == get_border_zone_ids(lookup)
        df_24 == YearAgg(q24, ids)
        df_25 == YearAgg(q25, ids)
        joined == {FillJoined(r, TripsDtype(q24), TripsDtype(q25)) :
                      r \in OuterJoin(df_24, df_25)}
        final_df == {[pct_change |-> PctChange(r)] @@ r : r \in joined}
    IN LookupJoin(final_df, lookup)

analyze_border_effect_table(lookup, q24, q25) ==
    IF LacksDropoff(q24) \/ LacksDropoff(q25) THEN Raised
    ELSE Table(BorderFinalDf(lookup, q24, q25))

\* The inputs drawn: three Manhattan zones, two of them border zones, and
\* yearly counts on both sides of the threshold of 50.
BorderGdf ==
    << [LocationID |-> 1, borough |-> "Manhattan", latitude |-> Num(40764)],
       [LocationID |-> 2, borough |-> "Manhattan", latitude |-> Num(40780)],
       [LocationID |-> 3, borough |-> "Manhattan", latitude |-> Num(40700)] >>

CleanCols == {"pickup_loc", "dropoff_loc"}

RawCols == {"PULocationID", "DOLocationID"}

DropoffCounts ==
    {[z \in 1..3 |-> IF z = 1 THEN a ELSE IF z = 2 THEN b ELSE c] :
        a \in {0, 30, 50, 51, 60, 120, 300}, b \in {0, 60, 120}, c \in {0, 60}}

CleanQueries == [src : {"clean"}, cols : {CleanCols}, n : DropoffCounts]

RawQueries == [src : {"raw"}, cols : {RawCols}, n : DropoffCounts]

BorderArgs ==
    [kind : {"border"}, lookup : {BorderGdf},
     q24 : {NoData} \cup CleanQueries \cup RawQueries,
     q25 : {NoData} \cup CleanQueries]

Apply(name, value) ==
    /\ job = name
    /\ ret = NotRet
    /\ ret' = value
    /\ UNCHANGED <<job, args>>
    /\ UNCHANGED <<batchVars, procVars, zoneVars, pipeVars, raceVars>>

CalcBorder ==
    Apply("border", analyze_border_effect_table(args.lookup, args.q24, args.q25))

-----------------------------------------------------------------------------
(* analyze_leakage.  The 2025 trips are a bag: n[r] is the number of rows  *)
(* equal to r.  pickup_time is the day of 2025 the trip started on.        *)

KNot(a) == IF a = "T" THEN "F" ELSE IF a = "F" THEN "T" ELSE "N"

\* pl.col(c).is_in(ids)
IsIn(x, ids) == IF IsNull(x) THEN "N" ELSE KBool(x.v \in Range(ids))

AfterJan5(x) == IF IsNull(x) THEN "N" ELSE KBool(x.v > 5)

\* pl.col("pickup_time") >= datetime(2025, 1, 5)
OnOrAfterJan5(x) == IF IsNull(x) THEN "N" ELSE KBool(x.v >= 5)

\* leakage_filter
leakage_filter(r, ids) ==
    KAnd(KAnd(OnOrAfterJan5(r.pickup_time), KNot(IsIn(r.pickup_loc, ids))),
         IsIn(r.dropoff_loc, ids))

\* (pl.col("congestion_surcharge") > 0).alias("is_compliant")
is_compliant(r) == GtNum(r.congestion_surcharge, 0)

RECURSIVE SumBag(_, _)
SumBag(n, S) ==
    IF S = {} THEN 0
    ELSE LET x == CHOOSE y \in S : TRUE
         IN n[x] + SumBag(n, S \ {x})

\* df_audit: the kinds of row that pass the filter and occur.
df_audit(n, ids) ==
    {r \in DOMAIN n : n[r] > 0 /\ leakage_filter(r, ids) = "T"}

\* group_by("pickup_loc").agg(volume, leakage_rate): leakage_rate is
\* 1 - mean(is_compliant), the mean taken over the non-null values.
LeakageGroup(n, audit, p) ==
    LET rows == {r \in audit : r.pickup_loc = p}
        known == {r \in rows : is_compliant(r) # "N"}
        compliant == {r \in rows : is_compliant(r) = "T"}
    IN [pickup_loc |-> p,
        volume |-> SumBag(n, rows),
        leakage_rate |->
            IF known = {} THEN Null
            ELSE Frac(SumBag(n, known) - SumBag(n, compliant),
                      SumBag(n, known))]

VolumeOver50(g) == g.volume > 50

\* .filter(pl.col("volume") > 50)
LeakageGroups(n, ids) ==
    LET audit == df_audit(n, ids)
    IN {g \in {LeakageGroup(n, audit, p) : p \in {r.pickup_loc : r \in audit}} :
           VolumeOver50(g)}

\* a >= b for two rates.
RateGe(a, b) == a.n * b.d >= b.n * a.d

\* .sort("leakage_rate", descending=True): some order of the groups with
\* the rates not increasing; groups of equal rate come in any order.
SortedDesc(S) ==
    {s \in [1..Cardinality(S) -> S] :
        /\ \A i, j \in 1..Cardinality(S) : s[i] = s[j] => i = j
        /\ \A i \in 1..(Cardinality(S) - 1) :
               RateGe(s[i].leakage_rate, s[i + 1].leakage_rate)}

\* .limit(3)
Limit3(s) == SubSeq(s, 1, IF Len(s) < 3 THEN Len(s) ELSE 3)

\* leakage_by_loc.join(lookup, left_on="pickup_loc", right_on="LocationID"):
\* one row for every row of the lookup with the group's id.
RECURSIVE LeakJoin(_, _)
LeakJoin(s, lookup) ==
    IF s = <<>> THEN <<>>
    ELSE LET g == Head(s)
             same(z) == z.LocationID = g.pickup_loc.v
             m == SelectSeq(lookup, same)
         IN [i \in 1..Len(m) |-> [borough |-> m[i].borough] @@ g]
            \o LeakJoin(Tail(s), lookup)

\* The tables that may be written to leakage_audit.csv.
top_leakers(lookup, n) ==
    {LeakJoin(Limit3(s), lookup) :
        s \in SortedDesc(LeakageGroups(n, get_congestion_zone_ids(lookup)))}

\* The inputs drawn.  Zone 1 is in the congestion zone; zones 2, 3 and 4
\* are not; pickup id 9 is in no row of the shapefile.
LeakGdf ==
    << [LocationID |-> 1, borough |-> "Manhattan", latitude |-> Num(40700)],
       [LocationID |-> 2, borough |-> "Brooklyn", latitude |-> Num(40700)],
       [LocationID |-> 3, borough |-> "Manhattan", latitude |-> Num(40780)],
       [LocationID |-> 4, borough |-> "Brooklyn", latitude |-> Num(40650)] >>

Trip(p, d, t, s) ==
    [pickup_loc |-> p, dropoff_loc |-> d, pickup_time |-> t,
     congestion_surcharge |-> s]

PickupZones == {2, 3, 4, 9}

\* Trips into the zone on or after 5 January, without and with surcharge.
LeakKind(p) == Trip(Num(p), Num(1), Num(5), Num(0))

PaidKind(p) == Trip(Num(p), Num(1), Num(6), Num(250))

\* Trips the filter drops: before 5 January, picked up inside the zone,
\* dropped off outside it, and with a null in each filtered column.
NoiseKinds ==
    {Trip(Num(2), Num(1), Num(4), Num(0)),
     Trip(Num(1), Num(1), Num(6), Num(0)),
     Trip(Num(2), Num(3), Num(6), Num(0)),
     Trip(Null, Num(1), Num(6), Num(0)),
     Trip(Num(2), Null, Num(6), Num(0)),
     Trip(Num(2), Num(1), Null, Num(0))}

ZoneOptions ==
    {[v |-> 0, leaks |-> 0], [v |-> 50, leaks |-> 50],
     [v |-> 51, leaks |-> 51], [v |-> 60, leaks |-> 0],
     [v |-> 60, leaks |-> 15], [v |-> 100, leaks |-> 40]}

LeakBag(opt, noise) ==
    [r \in NoiseKinds \cup {LeakKind(p) : p \in PickupZones}
                      \cup {PaidKind(p) : p \in PickupZones} |->
        IF r \in NoiseKinds THEN noise
        ELSE IF r.congestion_surcharge.v = 0 THEN opt[r.pickup_loc.v].leaks
        ELSE opt[r.pickup_loc.v].v - opt[r.pickup_loc.v].leaks]

LeakArgs ==
    [kind : {"leakage"}, lookup : {LeakGdf},
     n : {LeakBag(o, k) : o \in [PickupZones -> ZoneOptions], k \in {0, 60}}]

CalcLeakage ==
    /\ job = "leakage"
    /\ \E t \in top_leakers(args.lookup, args.n) : Apply("leakage", Table(t))

-----------------------------------------------------------------------------
(* analyze_velocity_heatmap, one year of its loop.  The trips are a bag;   *)
(* times are seconds counted from a Monday 00:00, distances tenths of a    *)
(* mile, and a speed is the exact fraction of miles per hour.              *)

RECURSIVE GCD(_, _)
GCD(a, b) == IF b = 0 THEN a ELSE GCD(b, a % b)

\* n/d in lowest terms, n >= 0 and d > 0.
Reduced(n, d) ==
    LET g == GCD(n, d)
    IN IF g = 0 THEN Frac(n, d) ELSE Frac(n \div g, d \div g)

FracAdd(a, b) == Reduced(a.n * b.d + b.n * a.d, a.d * b.d)

\* if "clean" not in str(q): q.rename({...}) -- the four raw names.
RawToClean ==
    [tpep_pickup_datetime |-> "pickup_time",
     tpep_dropoff_datetime |-> "dropoff_time",
     PULocationID |-> "pickup_loc", DOLocationID |-> "dropoff_loc"]

RenameRaw(q) ==
    IF q.src # "clean"
    THEN [q EXCEPT !.cols = {IF c \in DOMAIN RawToClean THEN RawToClean[c]
                             ELSE c : c \in q.cols}]
    ELSE q

\* rename of a column the query does not have, or a filter on one.
VelocityRaises(q) ==
    \/ q.src # "clean" /\ ~(DOMAIN RawToClean \subseteq q.cols)
    \/ ~({"pickup_time", "dropoff_time", "pickup_loc", "dropoff_loc",
          "trip_distance"} \subseteq RenameRaw(q).cols)

\* (pickup_loc.is_in(zone_ids)) & (dropoff_loc.is_in(zone_ids))
internal(r, ids) == KAnd(IsIn(r.pickup_loc, ids), IsIn(r.dropoff_loc, ids))

\* (dropoff_time - pickup_time).dt.total_seconds()
TripSeconds(r) ==
    IF IsNull(r.pickup_time) \/ IsNull(r.dropoff_time) THEN Null
    ELSE Num(r.dropoff_time.v - r.pickup_time.v)

AtLeastThreeMinutes(secs) ==
    IF IsNull(secs) THEN "N" ELSE KBool(20 * secs.v >= 3600)

\* duration_hours > 0.05, duration_hours being seconds / 3600.
OverThreeMinutes(secs) ==
    IF IsNull(secs) THEN "N" ELSE KBool(20 * secs.v > 3600)

\* trip_distance / duration_hours of a row of speed_df.
speed_mph(r) ==
    IF IsNull(r.trip_distance) THEN Null
    ELSE Reduced(r.trip_distance.v * 360, TripSeconds(r).v)

\* pickup_time.dt.weekday() (Monday is 1) and pickup_time.dt.hour()
day_of_week(t) == ((t \div 86400) % 7) + 1

hour_of_day(t) == (t \div 3600) % 24

\* speed_df: the kinds of row that pass both filters and occur.
speed_df(n, ids) ==
    {r \in DOMAIN n : /\ n[r] > 0
                      /\ internal(r, ids) = "T"
                      /\ OverThreeMinutes(TripSeconds(r)) = "T"}

RECURSIVE SumSpeeds(_, _)
SumSpeeds(n, S) ==
    IF S = {} THEN Frac(0, 1)
    ELSE LET x == CHOOSE y \in S : TRUE
             s == speed_mph(x)
         IN FracAdd(Frac(s.n * n[x], s.d), SumSpeeds(n, S \ {x}))

\* pl.col("speed_mph").mean(): over the speeds that are not null.
MeanSpeed(n, rows) ==
    LET known == {r \in rows : ~IsNull(speed_mph(r))}
        total == SumSpeeds(n, known)
    IN IF known = {} THEN Null
       ELSE Reduced(total.n, total.d * SumBag(n, known))

\* group_by(["day_of_week", "hour_of_day"]).agg(avg_speed)
HeatmapCells(n, ids) ==
    LET df == speed_df(n, ids)
        cells == {<<day_of_week(r.pickup_time.v), hour_of_day(r.pickup_time.v)>> :
                     r \in df}
    IN {[day_of_week |-> c[1], hour_of_day |-> c[2],
         avg_speed |-> MeanSpeed(n, {r \in df :
                          /\ day_of_week(r.pickup_time.v) = c[1]
                          /\ hour_of_day(r.pickup_time.v) = c[2]})] :
           c \in cells}

\* .sort(["day_of_week", "hour_of_day"])
SortedCells(S) ==
    CHOOSE s \in [1..Cardinality(S) -> S] :
        /\ \A i, j \in 1..Cardinality(S) : s[i] = s[j] => i = j
        /\ \A i \in 1..(Cardinality(S) - 1) :
               \/ s[i].day_of_week < s[i + 1].day_of_week
               \/ /\ s[i].day_of_week = s[i + 1].day_of_week
                  /\ s[i].hour_of_day <= s[i + 1].hour_of_day

\* if q is None: continue
Skipped == [kind |-> "skipped"]

\* What one pass of the loop writes to velocity_heatmap_{year}.csv.
heatmap(lookup, q) ==
    IF q.src = "none" THEN Skipped
    ELSE IF VelocityRaises(q) THEN Raised
    ELSE Table(SortedCells(HeatmapCells(q.n, get_congestion_zone_ids(lookup))))

\* The inputs drawn.  Zones 1 and 2 are in the congestion zone, zone 3 is
\* not.
VelGdf ==
    << [LocationID |-> 1, borough |-> "Manhattan", latitude |-> Num(40700)],
       [LocationID |-> 2, borough |-> "Manhattan", latitude |-> Num(40750)],
       [LocationID |-> 3, borough |-> "Brooklyn", latitude |-> Num(40700)] >>

VTrip(p, d, t, secs, dist) ==
    [pickup_loc |-> p, dropoff_loc |-> d, pickup_time |-> Num(t),
     dropoff_time |-> Num(t + secs), trip_distance |-> dist]

Mon8 == 8 * 3600

SixMinutes == VTrip(Num(1), Num(2), Mon8, 360, Num(20))

ThreeMinutes == VTrip(Num(1), Num(2), Mon8, 180, Num(20))

\* Other trips inside the zone: 181 s at 08:30, a Tuesday trip, a trip a
\* week later at 08:00, a trip without distance.
OtherInside ==
    {VTrip(Num(2), Num(1), Mon8 + 1800, 181, Num(10)),
     VTrip(Num(1), Num(1), 86400 + Mon8, 720, Num(30)),
     VTrip(Num(1), Num(2), 7 * 86400 + Mon8, 360, Num(10)),
     VTrip(Num(1), Num(2), 10 * 3600, 360, Null)}

\* Trips that reach no bin: from outside, to outside, without pickup
\* time, ending before they start, without pickup zone.
NoBin ==
    {VTrip(Num(3), Num(1), Mon8, 360, Num(20)),
     VTrip(Num(1), Num(3), Mon8, 360, Num(20)),
     [VTrip(Num(1), Num(2), Mon8, 360, Num(20)) EXCEPT !.pickup_time = Null],
     VTrip(Num(1), Num(2), Mon8, 0 - 60, Num(20)),
     VTrip(Null, Num(2), Mon8, 360, Num(20))}

VelBags ==
    {[r \in {SixMinutes, ThreeMinutes} \cup OtherInside \cup NoBin |->
         IF r = SixMinutes THEN a
         ELSE IF r \in present THEN 1 ELSE 0] :
        a \in 0..2, present \in SUBSET ({ThreeMinutes} \cup OtherInside \cup NoBin)}

VelCleanCols ==
    {"pickup_time", "dropoff_time", "pickup_loc", "dropoff_loc", "trip_distance"}

VelRawCols ==
    {"tpep_pickup_datetime", "tpep_dropoff_datetime", "PULocationID",
     "DOLocationID", "trip_distance"}

VelArgs ==
    [kind : {"velocity"}, lookup : {VelGdf}, year : {2025},
     q : {NoData} \cup [src : {"clean"}, cols : {VelCleanCols}, n : VelBags]]
    \cup
    [kind : {"velocity"}, lookup : {VelGdf}, year : {2024},
     q : {NoData} \cup [src : {"clean"}, cols : {VelCleanCols}, n : VelBags]
                 \cup [src : {"raw"}, cols : {VelRawCols}, n : VelBags]]

CalcVelocity == Apply("velocity", heatmap(args.lookup, args.q))

-----------------------------------------------------------------------------
(* compare_volumes.  The store is a set of files [dir, taxi, year, month]; *)
(* every file holds rows dropped off in zones 1 and 2 (inside the          *)
(* congestion zone) and 3 (outside), in numbers that tell the files apart. *)

VolumeFiles ==
    [dir : {"data/processed"}, taxi : {"yellow", "green"},
     year : {2024, 2025}, month : {"01"}]
    \cup [dir : {"data/processed"}, taxi : {"yellow"},
          year : {2024, 2025}, month : {"02"}]
    \cup [dir : {"data/processed"}, taxi : {"yellow"}, year : {2025},
          month : {"06"}]
    \cup [dir : {"data/raw"}, taxi : {"yellow", "green"}, year : {2024},
          month : {"01"}]
    \cup [dir : {"data/raw"}, taxi : {"yellow"}, year : {2025}, month : {"01"}]
    \cup [dir : {"data/raw"}, taxi : {"yellow"}, year : {2024}, month : {"06"}]

FileRows(f) ==
    [z \in 1..3 |->
        IF z = 3 THEN 5
        ELSE IF z = 2 THEN 100
        ELSE (IF f.month = "01" THEN 1 ELSE IF f.month = "02" THEN 2 ELSE 4)
             + (IF f.dir = "data/raw" THEN 10 ELSE 0)]

RECURSIVE SumRows(_, _)
SumRows(fs, z) ==
    IF fs = {} THEN 0
    ELSE LET f == CHOOSE g \in fs : TRUE
         IN FileRows(f)[z] + SumRows(fs \ {f}, z)

\* glob of f"clean_{taxi_type}_*{year}-0[1-3]*.parquet" under PROCESSED_DIR,
\* or of the pattern rewritten for data/raw, over a given set of files.
QuarterMatches(fs, dir, taxi, year) ==
    {f \in fs : /\ f.dir = dir /\ f.taxi = taxi /\ f.year = year
                /\ f.month \in Q1Months}

\* pl.scan_parquet over the files matched; str(q) names their directory.
Scan(matched) ==
    IF matched = {} THEN NoData
    ELSE IF \A f \in matched : f.dir = "data/processed"
    THEN [src |-> "clean", cols |-> CleanCols,
          n |-> [z \in 1..3 |-> SumRows(matched, z)]]
    ELSE [src |-> "raw", cols |-> RawCols,
          n |-> [z \in 1..3 |-> SumRows(matched, z)]]

VolumeQuery(fs, taxi, year) ==
    Scan(load_data(QuarterMatches(fs, "data/processed", taxi, year),
                   QuarterMatches(fs, "data/raw", taxi, year), year))

RECURSIVE SumZones(_, _)
SumZones(n, zs) ==
    IF zs = {} THEN 0
    ELSE LET z == CHOOSE y \in zs : TRUE
         IN n[z] + SumZones(n, zs \ {z})

\* q.filter(pl.col("dropoff_loc").is_in(zone_ids)).select(pl.len()).item()
volume(q, ids) == SumZones(RenameDropoff(q).n, Range(ids) \cap (1..3))

VolumePairs ==
    << <<"yellow", 2024>>, <<"yellow", 2025>>,
       <<"green", 2024>>, <<"green", 2025>> >>

\* The rows appended to results by the pairs from position i on.
RECURSIVE results(_, _, _)
results(fs, ids, i) ==
    IF i > Len(VolumePairs) THEN <<>>
    ELSE LET q == VolumeQuery(fs, VolumePairs[i][1], VolumePairs[i][2])
         IN IF q.src = "none" THEN results(fs, ids, i + 1)
            ELSE <<[taxi |-> VolumePairs[i][1], year |-> VolumePairs[i][2],
                    volume |-> volume(q, ids)]>>
                 \o results(fs, ids, i + 1)

\* The table written to volume_comparison.csv, unless a pair raises.
volume_comparison(lookup, fs) ==
    IF \E i \in 1..Len(VolumePairs) :
           LacksDropoff(VolumeQuery(fs, VolumePairs[i][1], VolumePairs[i][2]))
    THEN Raised
    ELSE Table(results(fs, get_congestion_zone_ids(lookup), 1))

VolumeArgs ==
    [kind : {"volumes"}, lookup : {VelGdf}, files : SUBSET VolumeFiles]

CalcVolumes == Apply("volumes", volume_comparison(args.lookup, args.files))

-----------------------------------------------------------------------------
(* The output paths process_data derives from two file names of data/raw.  *)
(* A name is a sequence of tokens none of which is a prefix of another, so *)
(* two names are the same string exactly when they are the same sequence,  *)
(* and ".parquet" occurs in a name only as a token.                        *)

NameStems == {<<"yellow">>, <<"green">>}

NameMiddles == {<<>>, <<"_tripdata_", "2025-01">>, <<".csv">>, <<".parquet">>}

\* The names glob(f"{RAW_DIR}/*.parquet") can return.
RawNames == {s \o m \o <<".parquet">> : s \in NameStems, m \in NameMiddles}

\* clean_out and audit_out of the two files.
OutputPaths(a, b) ==
    [kind |-> "paths",
     clean_out |-> <<CleanPath(a), CleanPath(b)>>,
     audit_out |-> <<AuditPath(a), AuditPath(b)>>]

PathArgs == [kind : {"paths"}, a : RawNames, b : RawNames]

CalcPaths == Apply("paths", OutputPaths(args.a, args.b))

-----------------------------------------------------------------------------
(* The centroid latitude of the zone classifier, step by step.  A geometry *)
(* is the sequence of its vertices' ordinates (none for a missing          *)
(* geometry, one for a point); a GeoSeries is the geometries of the rows   *)
(* with the reference system their ordinates are in.  The layer is read in *)
(* the projected system of the shapefile.                                  *)

NativeCrs == "native"
EPSG4326 == "epsg:4326"

\* The inverse of the layer's projection, sampled on the grid of ordinates:
\* latitude in thousandths of a degree.  It is monotone and not affine.
ToLatitude == <<40750, 40766, 40770, 40786, 40794>>

Unproject(y) == ToLatitude[y + 1]

SumOrdinates(g) == IF g = <<>> THEN 0 ELSE g[1] + g[Len(g)]

\* GeoSeries.centroid: the centre of each geometry, in the same system.
Centroid(series) ==
    [crs |-> series.crs,
     geoms |-> [i \in 1..Len(series.geoms) |->
                  LET g == series.geoms[i]
                  IN IF g = <<>> THEN <<>>
                     ELSE IF Len(g) = 1 THEN g
                     ELSE <<SumOrdinates(g) \div 2>>]]

\* GeoSeries.to_crs(epsg=4326): every vertex is transformed.
ToCrs4326(series) ==
    IF series.crs = EPSG4326 THEN series
    ELSE [crs |-> EPSG4326,
          geoms |-> [i \in 1..Len(series.geoms) |->
                       [k \in 1..Len(series.geoms[i]) |->
                           Unproject(series.geoms[i][k])]]]

\* The chain written as geometry.to_crs(epsg=4326).centroid
CentroidChain_ReprojectFirst == <<"to_crs", "centroid">>

\* manhattan.geometry.centroid.to_crs(epsg=4326): the methods in call order.
CentroidChain == <<"centroid", "to_crs">>

CallMethod(m, series) ==
    IF m = "centroid" THEN Centroid(series) ELSE ToCrs4326(series)

\* manhattan['centroid'].y joined to the rows (NaN for a missing point).
WithLatitude(frame, series) ==
    [i \in 1..Len(frame) |->
        [LocationID |-> frame[i].LocationID, borough |-> frame[i].borough,
         latitude |-> IF series.geoms[i] = <<>> THEN Null
                      ELSE Num(series.geoms[i][1])]]

Threshold(fn, rows) ==
    IF fn = "congestion" THEN LocationIDs(SelectSeq(rows, SouthOf60th))
    ELSE LocationIDs(SelectSeq(rows, InBorderBand))

Shapes == {<<>>, <<0, 0>>, <<0, 2>>, <<2, 4>>, <<4, 4>>}

GeoLayers ==
    UNION {[1..k -> [borough : Boroughs, geometry : Shapes]] : k \in 1..2}

GeoArgs ==
    [kind : {"classify"}, fn : {"congestion", "border"}, layer : GeoLayers]

\* gdf = gpd.read_file(SHAPEFILE_PATH); gdf[gdf['borough'] == 'Manhattan']
GeoFilter ==
    /\ job = "classify"
    /\ ret = NotRet
    /\ LET layer == [i \in 1..Len(args.layer) |->
                       [LocationID |-> i, borough |-> args.layer[i].borough,
                        geometry |-> args.layer[i].geometry]]
           frame == ManhattanZones(layer)
       IN ret' = [kind |-> "geo", frame |-> frame,
                  series |-> [crs |-> NativeCrs,
                              geoms |-> [i \in 1..Len(frame) |->
                                           frame[i].geometry]],
                  todo |-> CentroidChain, ids |-> NotComputed]
    /\ UNCHANGED <<job, args>>
    /\ UNCHANGED <<batchVars, procVars, zoneVars, pipeVars, raceVars>>

\* One method call of the chain that computes the 'centroid' column.
GeoMethod ==
    /\ job = "classify"
    /\ ret.kind = "geo"
    /\ ret.todo # <<>>
    /\ ret' = [ret EXCEPT !.series = CallMethod(Head(ret.todo), ret.series),
                          !.todo = Tail(ret.todo)]
    /\ UNCHANGED <<job, args>>
    /\ UNCHANGED <<batchVars, procVars, zoneVars, pipeVars, raceVars>>

\* The latitude column, the threshold filter and tolist().
GeoThreshold ==
    /\ job = "classify"
    /\ ret.kind = "geo"
    /\ ret.todo = <<>>
    /\ ret.ids = NotComputed
    /\ ret' = [ret EXCEPT
                 !.ids = Threshold(args.fn, WithLatitude(ret.frame, ret.series))]
    /\ UNCHANGED <<job, args>>
    /\ UNCHANGED <<batchVars, procVars, zoneVars, pipeVars, raceVars>>

CalcInit ==
    /\ ret = NotRet
    /\ \/ job = "border" /\ args \in BorderArgs
       \/ job = "leakage" /\ args \in LeakArgs
       \/ job = "velocity" /\ args \in VelArgs
       \/ job = "volumes" /\ args \in VolumeArgs
       \/ job = "paths" /\ args \in PathArgs
       \/ job = "classify" /\ args \in GeoArgs

CalcNext == CalcBorder \/ CalcLeakage \/ CalcVelocity \/ CalcVolumes
            \/ CalcPaths \/ GeoFilter \/ GeoMethod \/ GeoThreshold

InitCalc == CalcInit /\ ProcIdle /\ BatchIdle /\ ZonesIdle /\ PipeIdle /\ RaceIdle

SpecCalc == InitCalc /\ [][CalcNext]_vars

-----------------------------------------------------------------------------
(* Properties of analyze_border_effect (checked under SpecCalc).           *)

BorderDone == job = "border" /\ ret.kind = "table"

\* The number of drop-offs in zone z that a year's input holds.
CountIn(q, z) == IF q.src = "none" THEN 0 ELSE q.n[z]

\* The rows of the result under zone id z.
RowsOf(z) == {r \in ret.rows : r.dropoff_loc = Num(z)}

\* The value 100 * diff / den is the integer k.
PctIs(p, k) ==
    IF p.diff.t = "u32" THEN p.diff.hi = 0 /\ 100 * p.diff.lo = k * p.den
    ELSE 100 * p.diff.v = k * p.den

\* C12: every zone of the border-effect result whose 2024 count is at most
\* 50 has pct_change 0.0 whatever its 2025 count, and a zone with 60 trips
\* in 2024 and 120 in 2025 has pct_change 100.0.
C12_ZeroGuardInclusive ==
    BorderDone =>
        \A z \in 1..Len(args.lookup) : \A r \in RowsOf(z) :
            /\ CountIn(args.q24, z) <= 50 => PctIs(r.pct_change, 0)
            /\ (CountIn(args.q24, z) = 60 /\ CountIn(args.q25, z) = 120)
                   => PctIs(r.pct_change, 100)

\* Zone 1 goes from 50 to 300 and has 0.0, zone 2 from 60 to 120 and has
\* 100.0.
C12_Witness ==
    /\ BorderDone
    /\ CountIn(args.q24, 1) = 50 /\ CountIn(args.q25, 1) = 300
    /\ CountIn(args.q24, 2) = 60 /\ CountIn(args.q25, 2) = 120
    /\ \E r \in RowsOf(1) : PctIs(r.pct_change, 0)
    /\ \E r \in RowsOf(2) : PctIs(r.pct_change, 100)

\* C17: for every zone of the border-effect result with a 2024 count c24
\* over 50, pct_change is 100 * (c25 - c24) / c24 with the signed
\* difference, so a decline is negative and never a wrapped-around value.
C17_SignedPctChange ==
    BorderDone =>
        \A z \in 1..Len(args.lookup) : \A r \in RowsOf(z) :
            CountIn(args.q24, z) > 50 =>
                LET d == CountIn(args.q25, z) - CountIn(args.q24, z)
                    p == r.pct_change
                IN /\ p.den = CountIn(args.q24, z)
                   /\ IF p.diff.t = "u32"
                      THEN p.diff.hi = 0 /\ p.diff.lo = d
                      ELSE p.diff.v = d

\* C18: every border zone with a trip in 2024 or in 2025 has a row of the
\* result under its own id, holding its two counts (zero for a year in
\* which it has no trips).
C18_EveryBorderZoneListed ==
    BorderDone =>
        \A z \in Range(get_border_zone_ids(args.lookup)) :
            (CountIn(args.q24, z) > 0 \/ CountIn(args.q25, z) > 0) =>
                \E r \in RowsOf(z) :
                    /\ IntOf(r.trips_2024) = CountIn(args.q24, z)
                    /\ IntOf(r.trips_2025) = CountIn(args.q25, z)

-----------------------------------------------------------------------------
(* Properties of analyze_leakage (checked under SpecCalc).                 *)

LeakDone == job = "leakage" /\ ret.kind = "table"

\* The rows of the input that start in zone p outside the congestion
\* zone, end inside it and start on or after 5 January.
CountedRows(p) ==
    LET zone == Range(get_congestion_zone_ids(args.lookup))
    IN {r \in DOMAIN args.n :
           /\ ~IsNull(r.pickup_loc) /\ r.pickup_loc.v = p /\ p \notin zone
           /\ ~IsNull(r.dropoff_loc) /\ r.dropoff_loc.v \in zone
           /\ ~IsNull(r.pickup_time) /\ r.pickup_time.v >= 5}

Counted(p) == SumBag(args.n, CountedRows(p))

Unpaid(p) ==
    SumBag(args.n, {r \in CountedRows(p) : ~(r.congestion_surcharge.v > 0)})

\* C13: every row of the leakage result is a pickup zone whose volume is
\* the number of its trips from outside the zone into it on or after the
\* lower bound, whose leakage_rate is the fraction of those trips with a
\* surcharge not above 0, and whose volume is above 50.
C13_LeakageRate ==
    LeakDone =>
        \A i \in 1..Len(ret.rows) :
            LET g == ret.rows[i]
                p == g.pickup_loc.v
            IN /\ g.volume = Counted(p)
               /\ g.volume > 50
               /\ g.leakage_rate.n * Counted(p) = Unpaid(p) * g.leakage_rate.d

\* Zone 2 has 100 counted trips, 40 of them unpaid, and is listed with
\* 0.40; zone 3 has 50 counted trips, all unpaid, and is not listed; the
\* input also holds trips the filter drops.
C13_Witness ==
    /\ LeakDone
    /\ Counted(2) = 100 /\ Unpaid(2) = 40
    /\ Counted(3) = 50 /\ Unpaid(3) = 50
    /\ \E r \in NoiseKinds : args.n[r] > 0
    /\ \E i \in 1..Len(ret.rows) :
           /\ ret.rows[i].pickup_loc = Num(2)
           /\ ret.rows[i].volume = 100
           /\ ret.rows[i].leakage_rate.n * 100 = 40 * ret.rows[i].leakage_rate.d
    /\ \A i \in 1..Len(ret.rows) : ret.rows[i].pickup_loc # Num(3)

\* C19: the leakage result has exactly min(3, n) rows, n being the number
\* of pickup zones with a counted volume above 50; the rows are distinct
\* zones of those, in descending order of leakage_rate, and no zone left
\* out has a higher rate than a zone listed.
C19_TopThreeKept ==
    LeakDone =>
        LET big == {p \in PickupZones : Counted(p) > 50}
            rows == ret.rows
            listed == {rows[i].pickup_loc.v : i \in 1..Len(rows)}
        IN /\ Len(rows) = IF Cardinality(big) < 3 THEN Cardinality(big) ELSE 3
           /\ Cardinality(listed) = Len(rows)
           /\ listed \subseteq big
           /\ \A i \in 1..(Len(rows) - 1) :
                  RateGe(rows[i].leakage_rate, rows[i + 1].leakage_rate)
           /\ \A p \in big \ listed : \A i \in 1..Len(rows) :
                  Unpaid(p) * rows[i].leakage_rate.d
                      <= rows[i].leakage_rate.n * Counted(p)

-----------------------------------------------------------------------------
(* Properties of analyze_velocity_heatmap (checked under SpecCalc).        *)

VelocityDone == job = "velocity" /\ ret.kind = "table"

\* A kind of trip of the input that occurs, starts and ends inside the
\* congestion zone and lasts more than 0.05 hr, that is 180 s.
Qualifies(r) ==
    LET zone == Range(get_congestion_zone_ids(args.lookup))
    IN /\ args.q.n[r] > 0
       /\ ~IsNull(r.pickup_loc) /\ r.pickup_loc.v \in zone
       /\ ~IsNull(r.dropoff_loc) /\ r.dropoff_loc.v \in zone
       /\ ~IsNull(r.pickup_time) /\ ~IsNull(r.dropoff_time)
       /\ r.dropoff_time.v - r.pickup_time.v > 180

InCell(r, day, hour) ==
    /\ Qualifies(r)
    /\ day_of_week(r.pickup_time.v) = day
    /\ hour_of_day(r.pickup_time.v) = hour

\* C14: the heatmap has a row for a (day, hour) cell exactly when a trip
\* inside the zone lasting more than 0.05 hr starts in it, no cell has two
\* rows, and the average of a row is the mean speed of exactly those trips
\* of its cell (the trips with a distance): a 3-minute trip is left out, a
\* 2-mile trip of 6 minutes counts with 20 mph.
C14_HeatmapBins ==
    VelocityDone =>
        LET rows == ret.rows
            trips == DOMAIN args.q.n
        IN /\ \A i, j \in 1..Len(rows) :
                  (/\ rows[i].day_of_week = rows[j].day_of_week
                   /\ rows[i].hour_of_day = rows[j].hour_of_day) => i = j
           /\ \A r \in trips : Qualifies(r) =>
                  \E i \in 1..Len(rows) :
                      InCell(r, rows[i].day_of_week, rows[i].hour_of_day)
           /\ \A i \in 1..Len(rows) :
                  LET mine == {r \in trips :
                                  InCell(r, rows[i].day_of_week, rows[i].hour_of_day)}
                      known == {r \in mine : ~IsNull(r.trip_distance)}
                      total == SumSpeeds(args.q.n, known)
                  IN /\ mine # {}
                     /\ IF known = {} THEN IsNull(rows[i].avg_speed)
                        ELSE rows[i].avg_speed.n * total.d * SumBag(args.q.n, known)
                                 = total.n * rows[i].avg_speed.d
           /\ (args.q.n[SixMinutes] > 0 => speed_mph(SixMinutes) = Frac(20, 1))

\* The input holds a 2-mile trip of 3 minutes and one of 6 minutes on
\* Monday at 08:00 and trips outside the zone; the Monday 08:00 row is the
\* only row and averages 20 mph.
C14_Witness ==
    /\ VelocityDone
    /\ args.q.n[SixMinutes] = 1 /\ args.q.n[ThreeMinutes] = 1
    /\ \A r \in OtherInside : args.q.n[r] = 0
    /\ \A r \in NoBin : args.q.n[r] = 1
    /\ ret.rows = <<[day_of_week |-> 1, hour_of_day |-> 8,
                     avg_speed |-> Frac(20, 1)]>>

-----------------------------------------------------------------------------
(* Properties of compare_volumes (checked under SpecCalc).                 *)

VolumesDone == job = "volumes" /\ ret.kind # "none"

\* The Q1 files of a (taxi, year) pair under a directory of the store.
QuarterFiles(dir, taxi, year) ==
    {f \in args.files : /\ f.dir = dir /\ f.taxi = taxi /\ f.year = year
                        /\ f.month \in {"01", "02", "03"}}

\* The rows of a set of files dropped off inside the congestion zone.
InZone(fs) == SumRows(fs, 1) + SumRows(fs, 2)

RowsFor(taxi, year) ==
    {i \in 1..Len(ret.rows) : ret.rows[i].taxi = taxi /\ ret.rows[i].year = year}

\* C20: for each (taxi, year) pair the volume is counted from the clean
\* Q1 files when there are any; from the raw Q1 files, drop-off column
\* renamed, when there are none and the year is 2024; and a pair with
\* neither, or a pair of another year without clean files, has no row while
\* the other pairs keep theirs.
C20_VolumeLoader ==
    VolumesDone =>
        /\ ret.kind = "table"
        /\ \A t \in {"yellow", "green"}, y \in {2024, 2025} :
               LET clean == QuarterFiles("data/processed", t, y)
                   rawq == QuarterFiles("data/raw", t, y)
                   rows == RowsFor(t, y)
               IN IF clean # {}
                  THEN /\ Cardinality(rows) = 1
                       /\ \A i \in rows : ret.rows[i].volume = InZone(clean)
                  ELSE IF y = 2024 /\ rawq # {}
                  THEN /\ Cardinality(rows) = 1
                       /\ \A i \in rows : ret.rows[i].volume = InZone(rawq)
                  ELSE rows = {}

\* Yellow 2024 is counted from raw, yellow 2025 has raw files only and no
\* row, green 2024 has no file and no row, green 2025 is counted from its
\* clean file.
C20_Witness ==
    /\ VolumesDone /\ ret.kind = "table"
    /\ QuarterFiles("data/processed", "yellow", 2024) = {}
    /\ QuarterFiles("data/raw", "yellow", 2024) # {}
    /\ QuarterFiles("data/processed", "yellow", 2025) = {}
    /\ QuarterFiles("data/raw", "yellow", 2025) # {}
    /\ QuarterFiles("data/processed", "green", 2024) = {}
    /\ QuarterFiles("data/raw", "green", 2024) = {}
    /\ QuarterFiles("data/processed", "green", 2025) # {}
    /\ ret.rows = <<[taxi |-> "yellow", year |-> 2024, volume |-> 111],
                    [taxi |-> "green", year |-> 2025, volume |-> 101]>>

-----------------------------------------------------------------------------
(* Properties of the output paths (checked under SpecCalc).                *)

\* C16: two different input file names never have the same clean path or
\* the same audit path.
C16_PathsInjective ==
    (job = "paths" /\ ret.kind = "paths" /\ args.a # args.b) =>
        /\ ret.clean_out[1] # ret.clean_out[2]
        /\ ret.audit_out[1] # ret.audit_out[2]

-----------------------------------------------------------------------------
(* The steps of one call, interleaved with the steps of the others.        *)

Goto(a, label) ==
    /\ apc' = [apc EXCEPT ![a] = label]
    /\ UNCHANGED readyAtStart
    /\ UNCHANGED <<batchVars, procVars, zoneVars, pipeVars, calcVars>>

Wrote(a, fs) ==
    writers' = [f \in RaceFiles |->
                   IF f \in fs THEN writers[f] \cup {a} ELSE writers[f]]

\* if not os.path.exists(zip_path)
CheckZip(a) ==
    /\ apc[a] = "check_zip"
    /\ Goto(a, IF zipFile = "absent" THEN "open_zip" ELSE "check_shp")
    /\ UNCHANGED <<zipFile, shpFile, writers>>

\* r = requests.get(SHAPEFILE_URL); open(zip_path, 'wb') truncates the file
OpenZip(a) ==
    /\ apc[a] = "open_zip"
    /\ zipFile' = "partial"
    /\ Wrote(a, {ZipName})
    /\ Goto(a, "write_zip")
    /\ UNCHANGED shpFile

\* f.write(r.content) and the end of the with block
WriteZip(a) ==
    /\ apc[a] = "write_zip"
    /\ zipFile' = "complete"
    /\ Goto(a, "check_shp")
    /\ UNCHANGED <<shpFile, writers>>

\* if not os.path.exists(SHAPEFILE_PATH)
CheckShp(a) ==
    /\ apc[a] = "check_shp"
    /\ Goto(a, IF shpFile = "absent" THEN "extract" ELSE "read")
    /\ UNCHANGED <<zipFile, shpFile, writers>>

\* zipfile.ZipFile(zip_path, 'r') raises BadZipFile on a file that is not
\* yet whole; extractall starts writing the members.  Nothing here is in a
\* try block except in analyze_leakage.
StartExtract(a) ==
    /\ apc[a] = "extract"
    /\ IF zipFile = "complete"
       THEN /\ shpFile' = "partial"
            /\ Wrote(a, {ShpName})
            /\ Goto(a, "extracting")
       ELSE /\ Goto(a, IF a = "leakage" THEN "skipped" ELSE "raised")
            /\ UNCHANGED <<shpFile, writers>>
    /\ UNCHANGED zipFile

\* extractall has written every member
FinishExtract(a) ==
    /\ apc[a] = "extracting"
    /\ shpFile' = "complete"
    /\ Goto(a, "read")
    /\ UNCHANGED <<zipFile, writers>>

\* gpd.read_file(SHAPEFILE_PATH): raises on members that are not whole.
ReadShp(a) ==
    /\ apc[a] = "read"
    /\ Goto(a, IF shpFile # "complete"
               THEN (IF a = "leakage" THEN "skipped" ELSE "raised")
               ELSE IF a \in NeedsLookup THEN "lookup" ELSE "write")
    /\ UNCHANGED <<zipFile, shpFile, writers>>

\* get_zone_lookup(): the archive and the .shp exist by now, so its call of
\* download_and_extract_shapefile only checks; gpd.read_file is not
\* guarded here.
Lookup(a) ==
    /\ apc[a] = "lookup"
    /\ Goto(a, IF shpFile # "complete" THEN "raised" ELSE "write")
    /\ UNCHANGED <<zipFile, shpFile, writers>>

\* write_csv of the analysis' own table(s)
WriteResult(a) ==
    /\ apc[a] = "write"
    /\ Wrote(a, OutputOf(a))
    /\ Goto(a, "done")
    /\ UNCHANGED <<zipFile, shpFile>>

RaceInit ==
    /\ apc = [a \in Range(Analyses) |->
                 IF a \in NeedsZones THEN "check_zip" ELSE "write"]
    /\ zipFile \in {"absent", "complete"}
    /\ shpFile \in {"absent", "complete"}
    /\ writers = [f \in RaceFiles |-> {}]
    /\ readyAtStart = (zipFile = "complete" /\ shpFile = "complete")

RaceStep(a) ==
    \/ CheckZip(a) \/ OpenZip(a) \/ WriteZip(a) \/ CheckShp(a)
    \/ StartExtract(a) \/ FinishExtract(a) \/ ReadShp(a) \/ Lookup(a)
    \/ WriteResult(a)

RaceNext == \E a \in Range(Analyses) : RaceStep(a)

InitRace == RaceInit /\ ProcIdle /\ BatchIdle /\ ZonesIdle /\ PipeIdle /\ CalcIdle

SpecRace == InitRace /\ [][RaceNext]_vars

-----------------------------------------------------------------------------
(* Properties of the analyses run side by side (checked under SpecRace).   *)

\* No file has been written by two analyses, no result file by an analysis
\* other than its own, and no call has ended without the table it writes
\* when the analyses run one after the other.
Independent ==
    /\ \A f \in RaceFiles : Cardinality(writers[f]) <= 1
    /\ \A a \in Range(Analyses) :
           /\ apc[a] \notin {"raised", "skipped"}
           /\ \A f \in RaceFiles \ {ZipName, ShpName} :
                  a \in writers[f] => f \in OutputOf(a)

\* C15 (as stated): however the five analyses are interleaved, each writes
\* only its own output files, no file or zone reference data is written by
\* two of them, and each ends with the table it writes when run alone.
C15_NoSharedState == Independent

\* C15 (amended): the same, for runs that start with taxi_zones.zip
\* downloaded and taxi_zones.shp extracted.
C15_IndependentOnceExtracted == readyAtStart => Independent

\* All five calls have finished side by side, each file written by its own
\* analysis, the zone files by none.
C15_Witness ==
    /\ readyAtStart
    /\ \A a \in Range(Analyses) : apc[a] = "done"
    /\ \A a \in Range(Analyses) : \A f \in OutputOf(a) : writers[f] = {a}
    /\ writers[ZipName] = {} /\ writers[ShpName] = {}

-----------------------------------------------------------------------------
(* Properties of the centroid computation of the zone classifier (checked  *)
(* under SpecCalc).                                                        *)

Classifying == job = "classify" /\ ret.kind = "geo"

\* The step about to be taken calls method m of the chain.
Calls(m) ==
    /\ Classifying
    /\ ret.todo # <<>>
    /\ Head(ret.todo) = m
    /\ ret'.todo = Tail(ret.todo)

ThresholdStep == Classifying /\ ret.ids = NotComputed /\ ret'.ids # NotComputed

OnlyPoints(series) == \A i \in 1..Len(series.geoms) : Len(series.geoms[i]) <= 1

\* C21 (as stated): in both zone-classification functions the geometries
\* are reprojected to EPSG:4326 before their centroids are taken: the
\* centroid step never precedes the reprojection step.
C21_ReprojectBeforeCentroid ==
    [][Calls("centroid") => ret.series.crs = EPSG4326]_vars

\* C21 (amended): in both zone-classification functions the centroids are
\* taken first, of the geometries in the layer's own projection; only the
\* centroid points are then reprojected to EPSG:4326; the latitude
\* thresholds are applied last, to the reprojected centroids.
C21_CentroidBeforeReproject ==
    [][/\ Calls("centroid") => ret.series.crs = NativeCrs
       /\ Calls("to_crs") => ret.series.crs = NativeCrs /\ OnlyPoints(ret.series)
       /\ ThresholdStep =>
            /\ ret.series.crs = EPSG4326
            /\ ret'.ids = Threshold(args.fn,
                   WithLatitude(ret.frame,
                       ToCrs4326(Centroid([crs |-> NativeCrs,
                           geoms |-> [i \in 1..Len(ret.frame) |->
                                        ret.frame[i].geometry]]))))]_vars

\* A Manhattan zone that straddles the ordinates 0 and 2 has been classified
\* as a border zone: its centre in the layer's projection lies north of the
\* cutoff, the centre of its reprojected outline would lie south of it.
C21_Witness ==
    /\ Classifying
    /\ args.fn = "border"
    /\ ret.ids = <<1>>
    /\ args.layer[1] = [borough |-> "Manhattan", geometry |-> <<0, 2>>]

-----------------------------------------------------------------------------
(* Properties of the classification and the split of one batch: which      *)
(* records can be in the clean partition (checked under SpecBatch).        *)

InFrame(row, df) == \E i \in 1..Len(df.rows) : df.rows[i] = row

\* dropoff_time is earlier than pickup_time.
DropoffBeforePickup(row) ==
    /\ ~IsNull(row["dropoff_time"]) /\ ~IsNull(row["pickup_time"])
    /\ row["dropoff_time"].v < row["pickup_time"].v

\* Every record with a negative duration carries a reason and is in the
\* ghost partition only.
NegativeDurationIsGhost ==
    \A i \in 1..Len(b_df.rows) :
        LET row == b_df.rows[i]
        IN DropoffBeforePickup(row) =>
              /\ Sat4(row)
              /\ ~IsNull(row["ghost_reason"])
              /\ InFrame(row, b_ghosts)
              /\ ~InFrame(row, b_clean)

\* duration_min >= 0 and speed_mph <= 65 are true of the row.
NonNegativeDuration(row) ==
    ~IsNull(row["duration_min"]) /\ ~Below(row["duration_min"], 0)

AtMost65(row) == ~IsNull(row["speed_mph"]) /\ ~Above(row["speed_mph"], 65)

-----------------------------------------------------------------------------
(* Properties of the audit log across runs of process_data (checked under  *)
(* Spec).                                                                  *)

HasAudit(st, file_name) == AuditPath(file_name) \in DOMAIN st

\* The step ends the processing of one file: its line is added to the log.
FileProcessed == Len(log') = Len(log) + 1

\* C23: after any sequence of runs, with input files replaced between them,
\* an audit file exists for an input file exactly when the most recent
\* successful processing of that file produced at least one ghost record.
\* Stated step by step: no audit file exists before the first run, a
\* successful processing of a file leaves an audit file for it exactly when
\* it counted a ghost, and nothing else creates or removes the file's audit.
C23_AuditMatchesLatestProcessing ==
    [][/\ pc = "idle" /\ runs = 0 => DOMAIN auditStore = {}
       /\ IF FileProcessed
          THEN LET line == log'[Len(log')]
               IN /\ \A f \in Range(files) \ {line.file} :
                        HasAudit(auditStore', f) <=> HasAudit(auditStore, f)
                  /\ IF line.error
                     THEN HasAudit(auditStore', line.file)
                             <=> HasAudit(auditStore, line.file)
                     ELSE HasAudit(auditStore', line.file) <=> line.ghosts > 0
          ELSE \A f \in Range(files) :
                  HasAudit(auditStore', f) <=> HasAudit(auditStore, f)]_vars


\* C24: when the processing of an input file fails at any step (load,
\* normalize, classify, clean write or audit write), the clean store and
\* the audit log are left exactly as they were before the attempt, so no
\* clean file is written without its matching audit file.
C24_FailedFileLeavesNoOutput ==
    [][FileProcessed /\ log'[Len(log')].error =>
          cleanStore' = cleanStore /\ auditStore' = auditStore]_vars

====
